---------------------------- MODULE Spec2Model ----------------------------
(***************************************************************************)
(* Speed-test and verification engine of SmartHostsTool.                   *)
(*                                                                         *)
(*   services.py     SpeedTester / EnhancedSpeedTester (per-IP evaluation) *)
(*   main_window.py  HostsOptimizer (orchestration, ranking, selection)    *)
(*                                                                         *)
(* Numbers: latencies and delays are whole milliseconds; a median is kept  *)
(* doubled (median2 = 2 * median) so that the mean of the two middle       *)
(* samples stays exact; stability scores and packet loss are kept in       *)
(* hundredths; rank scores are kept in hundredths.  None is -1.            *)
(***************************************************************************)
EXTENDS Integers, Sequences, FiniteSets, TLC

VARIABLES
    speed_test_config,   \* HostsOptimizer.speed_test_config
    tester,              \* run -> configuration held by that run's tester
    stop_test,           \* HostsOptimizer.stop_test
    stop_event,          \* HostsOptimizer._stop_event
    ev,                  \* <<run, ip>> -> future / evaluation state
    collector,           \* run -> state of the _collect_speedtest_results thread
    executor,            \* HostsOptimizer.executor: run that created it, 0 = None
    futures,             \* HostsOptimizer._futures: run that submitted them, 0 = []
    shut,                \* run -> its executor has been shut down
    ip_to_domains,       \* HostsOptimizer._ip_to_domains
    test_results,        \* HostsOptimizer.test_results
    total_ip_tests,      \* HostsOptimizer.total_ip_tests
    completed_ip_tests,  \* HostsOptimizer.completed_ip_tests
    ui_queue,            \* callbacks posted with master.after(0, ...)
    start_test_btn,      \* start button is NORMAL
    pause_test_btn,      \* pause button is NORMAL
    status_label,        \* text of the status label, by kind
    written,             \* last list handed to _do_write, <<>> before any
    net,                 \* environment: what the network answers for each IP
    remote_hosts_data,   \* HostsOptimizer.remote_hosts_data: (ip, domain) pairs
    smart_resolved_ips,  \* HostsOptimizer.smart_resolved_ips: (ip, domain) pairs
    sched,               \* the scheduled-test fields of HostsOptimizer
    SPEED_TEST_CONFIG,   \* config.SPEED_TEST_CONFIG, the built-in default configuration
    config_file,         \* content of speedtest_config.json, NoFile when absent
    hosts_file           \* the hosts file, its latest backup and the steps of the last _do_write

vars == <<speed_test_config, tester, stop_test, stop_event, ev, collector,
          executor, futures, shut, ip_to_domains, test_results, total_ip_tests,
          completed_ip_tests, ui_queue, start_test_btn, pause_test_btn,
          status_label, written, hosts_file, net, SPEED_TEST_CONFIG, config_file,
                   remote_hosts_data, smart_resolved_ips, sched>>

\* everything an evaluation step leaves alone
orchVars == <<speed_test_config, collector, executor, futures, shut,
              ip_to_domains, test_results, total_ip_tests, completed_ip_tests,
              ui_queue, start_test_btn, pause_test_btn, status_label, written, hosts_file,
              net, SPEED_TEST_CONFIG, config_file,
                   remote_hosts_data, smart_resolved_ips, sched>>

-----------------------------------------------------------------------------
(* Bounds of the model *)

MaxRuns == 2            \* start_test calls explored
MaxRetryChoice == 2     \* retry.max_retries ranges over 0..MaxRetryChoice
MaxAttemptChoice == 2   \* tcp.attempts ranges over 1..MaxAttemptChoice
MaxSaves == 2           \* saves of the settings dialog explored
MaxTimers == 2          \* scheduled-test timers held by Tk at a time
MaxScheduledTests == 2  \* scheduled tests explored

(* Program constants *)

SENTINEL_MS == 9999     \* delay reported for failed / stopped
MAX_POOL_WORKERS == 60  \* cap of the thread pool
TLS_BONUS == 1500       \* 15.0 in hundredths

None == -1

\* socket.socket() of _tcp_connect_rtt_ms raising OSError (outside its try)
OSErrorRaised == -2

Max(a, b) == IF a >= b THEN a ELSE b
Min(a, b) == IF a <= b THEN a ELSE b

Runs == 1..MaxRuns
IPS == {"140.82.112.3", "140.82.112.4", "199.232.69.194"}
Tasks == Runs \X IPS

-----------------------------------------------------------------------------
(* statistics helpers used by tcp_advanced_metrics *)

RECURSIVE Insert(_, _)
Insert(x, s) ==
    IF s = <<>> THEN <<x>>
    ELSE IF x <= Head(s) THEN <<x>> \o s
    ELSE <<Head(s)>> \o Insert(x, Tail(s))

RECURSIVE Sorted(_)
Sorted(s) == IF s = <<>> THEN <<>> ELSE Insert(Head(s), Sorted(Tail(s)))

\* statistics.median, doubled
Median2(s) ==
    LET t == Sorted(s)
        n == Len(s)
    IN IF n % 2 = 1 THEN 2 * t[(n + 1) \div 2]
       ELSE t[n \div 2] + t[n \div 2 + 1]

\* floor of the square root, by bisection on [lo, hi)
RECURSIVE ISqrtBis(_, _, _)
ISqrtBis(n, lo, hi) ==
    IF hi - lo <= 1 THEN lo
    ELSE LET mid == (lo + hi) \div 2
         IN IF mid * mid <= n THEN ISqrtBis(n, mid, hi) ELSE ISqrtBis(n, lo, mid)

ISqrt(n) == ISqrtBis(n, 0, 46340)

RECURSIVE SqDiffTo(_, _)
SqDiffTo(x, s) ==
    IF s = <<>> THEN 0
    ELSE (x - Head(s)) * (x - Head(s)) + SqDiffTo(x, Tail(s))

RECURSIVE PairSqSum(_)
PairSqSum(s) ==
    IF s = <<>> THEN 0 ELSE SqDiffTo(Head(s), Tail(s)) + PairSqSum(Tail(s))

\* statistics.stdev (sample standard deviation), floored to whole ms:
\* sum (x - mean)^2 / (n - 1) = sum_{i<j} (x_i - x_j)^2 / (n (n - 1))
Stdev(s) == ISqrt(PairSqSum(s) \div (Len(s) * (Len(s) - 1)))

\* a score whose latency term is not kept at 0 or above
stability_score_unclamped(median2, jitter, loss100) ==
    LET latency_score == 5000 - 5 * median2
        jitter_score == Max(0, 3000 - (jitter * 10000) \div 333)
        loss_score == Max(0, 2000 - loss100 \div 5)
    IN Min(10000, latency_score + jitter_score + loss_score)

\* SpeedTester._calculate_stability_score, in hundredths
\*   median2: doubled median (ms), jitter: ms, loss100: loss in 1/100 percent
calculate_stability_score(median2, jitter, loss100) ==
    LET latency_score == Max(0, 5000 - 5 * median2)
        jitter_score == Max(0, 3000 - (jitter * 10000) \div 333)
        loss_score == Max(0, 2000 - loss100 \div 5)
    IN Min(10000, latency_score + jitter_score + loss_score)

NoMetrics ==
    [ok |-> FALSE, median2 |-> None, jitter |-> None, packet_loss |-> None,
     stability_score |-> None, sample_count |-> None]

\* result dictionary of tcp_advanced_metrics for the successful samples
\* `lat` gathered with `attempts` configured probes
AdvancedMetrics(lat, attempts) ==
    IF lat = <<>>
    THEN [ok |-> FALSE, median2 |-> None, jitter |-> None, packet_loss |-> 10000,
          stability_score |-> 0, sample_count |-> 0]
    ELSE LET median2 == Median2(lat)
             jitter == IF Len(lat) > 1 THEN Stdev(lat) ELSE 0
             loss == ((attempts - Len(lat)) * 10000) \div attempts
         IN [ok |-> TRUE, median2 |-> median2, jitter |-> jitter,
             packet_loss |-> loss,
             stability_score |-> calculate_stability_score(median2, jitter, loss),
             sample_count |-> Len(lat)]

\* {"median": med, "ok": ok, "err": err} built from tcp_median_rtt_ms
MedianMetrics(lat) ==
    IF lat = <<>> THEN NoMetrics
    ELSE [NoMetrics EXCEPT !.ok = TRUE, !.median2 = Median2(lat)]


-----------------------------------------------------------------------------
(* Configuration (config.py SPEED_TEST_CONFIG, as validated by the         *)
(* settings dialog).  Only the options the evaluation reads are kept.      *)

ConfigOf(attempts, timeout_ms, tls_enabled, tls_strict, limit, icmp_enabled, retry_enabled, max_retries, measure_jitter) ==
    [attempts |-> attempts, timeout_ms |-> timeout_ms,
     tls_enabled |-> tls_enabled, tls_strict |-> tls_strict,
     try_hosts_limit |-> limit, icmp_enabled |-> icmp_enabled,
     retry_enabled |-> retry_enabled, max_retries |-> max_retries,
     measure_jitter |-> measure_jitter, sections |-> 0]

\* the values of config.py (SPEED_TEST_CONFIG as the module defines it)
DefaultConfig == ConfigOf(1, 2000, TRUE, FALSE, 1, TRUE, TRUE, 1, TRUE)

\* no speedtest_config.json
NoFile == [sections |-> None]

\* timeouts the settings dialog accepts (0.1 .. 60.0 s): the default and a long one
TimeoutChoices == {2000, 20000}

\* configurations explored for a single evaluation
EvalConfigs ==
    { ConfigOf(a, to, te, ts, lim, ie, re, mr, mj) :
        a \in 1..MaxAttemptChoice, to \in TimeoutChoices, te \in BOOLEAN,
        ts \in BOOLEAN, lim \in {1, 2}, ie \in BOOLEAN, re \in BOOLEAN,
        mr \in 0..MaxRetryChoice, mj \in BOOLEAN }

\* round-trip times (ms) a TCP connect can report; 0 stands for "below 1 ms"
LatencyValues == {0, 31, 12000}

\* outcomes of one _tcp_connect_rtt_ms call to `ip`: a latency within the
\* timeout, or None
ProbeOutcomes(cfg, ip) ==
    {rtt \in net[ip].tcp : rtt = None \/ rtt <= cfg.timeout_ms}

\* what the ping command reports: nothing, or a time in ms
PingReports == {None, 0, 80}

\* the reported time passed on as it is, "<1ms" as 0
icmp_ping_raw(report) == report

\* SpeedTester.icmp_ping_once applied to the ping report
icmp_ping_once(report) == IF report = None THEN None ELSE Max(1, report)

\* outcomes of one tls_sni_verify handshake
HandshakeOutcomes == {"ok", "timeout", "cert_verify"}

\* the unconstrained network: any answer to any probe
AnyNet ==
    [tcp |-> {None} \cup LatencyValues, tls |-> HandshakeOutcomes,
     icmp |-> PingReports]

\* SpeedTester._normalize_sni_host on the host strings of the model
normalize_sni_host(h) ==
    CASE h = "github.com" -> "github.com"
      [] h = "GitHub.com" -> "github.com"
      [] h = "https://github.com/x" -> "github.com"
      [] h = "api.github.com" -> "api.github.com"
      [] h = "api.github.com:443" -> "api.github.com"
      [] h = "gist.github.com" -> "gist.github.com"
      [] h = " " -> ""
      [] OTHER -> ""

\* a list that keeps the entries normalizing to the empty string
KeepEmptyHosts(hosts, hs) ==
    [j \in 1..Len(hosts) |-> normalize_sni_host(hosts[j])]

RECURSIVE NormalizedHosts(_, _)
\* the list hs built at the head of tls_sni_verify_any
NormalizedHosts(hosts, hs) ==
    IF hosts = <<>> THEN hs
    ELSE LET nh == normalize_sni_host(Head(hosts))
         IN NormalizedHosts(Tail(hosts),
                IF nh # "" /\ \A j \in 1..Len(hs) : hs[j] # nh
                THEN Append(hs, nh) ELSE hs)

\* every normalized host is tried, whatever the limit
TriedHostsNoLimit(hosts, limit) == NormalizedHosts(hosts, <<>>)

\* hs[:lim] of tls_sni_verify_any
TriedHosts(hosts, limit) ==
    LET hs == NormalizedHosts(hosts, <<>>)
    IN SubSeq(hs, 1, Min(Max(1, limit), Len(hs)))

-----------------------------------------------------------------------------
(* Statuses.  The code builds display strings; the model names them:       *)
(*   "available"                 可用                                      *)
(*   "available_tls"             可用(TLS)                                 *)
(*   "available_tcp_tls_failed"  可用(TCP,TLS失败:<err>)                   *)
(*   "available_icmp"            可用(ICMP)                                *)
(*   "failed"                    失败                                      *)
(*   "failed_sni"                失败(SNI:<err>)                           *)
(*   "failed_retries"            失败(重试N次)                             *)
(*   "failed_exception"          失败:<exception text>                     *)
(*   "stopped"                   已停止                                    *)

AvailableStatuses ==
    {"available", "available_tls", "available_tcp_tls_failed", "available_icmp"}

FailedStatuses == {"failed", "failed_sni", "failed_retries", "failed_exception"}

\* status.startswith("可用")
IsAvailable(st) == st \in AvailableStatuses

\* "(TLS)" in status
HasTlsTag(st) == st = "available_tls"

-----------------------------------------------------------------------------
(* One evaluation: EnhancedSpeedTester.test_with_retry running             *)
(* SpeedTester.test_one_ip_advanced.  A step ends at each read of the      *)
(* stop signal and at each sleep.                                          *)

\* SpeedTester._should_stop
should_stop == stop_event \/ stop_test

\* the scheduled-test fields after __init__ (lines 250-256): enabled is
\* _scheduled_test_enabled, has_domains says _scheduled_test_domains is not
\* empty, auto_write is _scheduled_test_auto_write, after_id is
\* _scheduled_test_after_id (0 = None), timers the ids Tk still holds,
\* threads the scheduled fetch/resolve threads alive, running is
\* _is_scheduled_test_running
NoSchedule ==
    [enabled |-> FALSE, has_domains |-> FALSE, auto_write |-> TRUE, after_id |-> 0,
     timers |-> {}, threads |-> 0, running |-> FALSE]

\* a collector thread that does not exist
NoCollector == [pc |-> "none", fs |-> 0, seen |-> {}]

NoEval ==
    [pc |-> "none", cands |-> <<>>, retry |-> 0, attempts |-> 0,
     retry_count |-> 0, errors |-> <<>>, i |-> 0, lat |-> <<>>, ms |-> None,
     k |-> 0, saw_stop |-> FALSE, delay |-> None, status |-> "none",
     metrics |-> NoMetrics, tls_used_host |-> "none", tls_error |-> "none",
     tried |-> <<>>, pings |-> 0, report |-> None, wait |-> 0]

\* a submitted future: the call test_with_retry(ip, sni_hosts=cands) not yet begun
Submitted(cands) == [NoEval EXCEPT !.pc = "pending", !.cands = cands]

\* the retry count taken whatever retry.enabled says
max_retries_ignoring_enabled(cfg) == cfg.max_retries

\* max_retries as computed at the head of test_with_retry
max_retries_of(cfg) == IF cfg.retry_enabled THEN cfg.max_retries ELSE 0

\* a return that takes only the TCP statuses for a success
AttemptReturnTcpOnly(e, cfg, ms, st, metrics) ==
    IF st \in {"available", "available_tls", "available_tcp_tls_failed", "stopped"}
    THEN [e EXCEPT !.pc = "finished", !.delay = ms, !.status = st,
                   !.metrics = metrics]
    ELSE LET e2 == [e EXCEPT !.errors = Append(@, st), !.retry_count = @ + 1]
         IN IF e.retry < max_retries_of(cfg)
            THEN [e2 EXCEPT !.pc = "backoff", !.wait = 1]
            ELSE [e2 EXCEPT !.pc = "finished", !.delay = SENTINEL_MS,
                            !.status = "failed_retries", !.metrics = NoMetrics]

\* test_with_retry after test_one_ip_advanced returned (ip, ms, st, metrics)
AttemptReturn(e, cfg, ms, st, metrics) ==
    IF IsAvailable(st) \/ st = "stopped"
    THEN [e EXCEPT !.pc = "finished", !.delay = ms, !.status = st,
                   !.metrics = metrics]
    ELSE LET e2 == [e EXCEPT !.errors = Append(@, st), !.retry_count = @ + 1]
         IN IF e.retry < max_retries_of(cfg)
            THEN [e2 EXCEPT !.pc = "backoff", !.wait = 1]
            ELSE [e2 EXCEPT !.pc = "finished", !.delay = SENTINEL_MS,
                            !.status = "failed_retries", !.metrics = NoMetrics]

\* a verification failure that is always a failure of the attempt
TlsFailedAlwaysStrict(e, cfg, h, err) ==
    AttemptReturn([e EXCEPT !.tls_used_host = h, !.tls_error = err], cfg,
                  SENTINEL_MS, "failed_sni", e.metrics)

\* a verification failure that never fails the attempt
TlsFailedAlwaysLenient(e, cfg, h, err) ==
    AttemptReturn([e EXCEPT !.tls_used_host = h, !.tls_error = err], cfg,
                  e.ms, "available_tcp_tls_failed", e.metrics)

\* tls_sni_verify_any returned (False, h, err): lines 1054-1059
TlsFailed(e, cfg, h, err) ==
    LET e2 == [e EXCEPT !.tls_used_host = h, !.tls_error = err]
    IN IF cfg.tls_strict
       THEN AttemptReturn(e2, cfg, SENTINEL_MS, "failed_sni", e.metrics)
       ELSE AttemptReturn(e2, cfg, e.ms, "available_tcp_tls_failed", e.metrics)

\* the sampling result is ignored and the fallback is always entered
AfterTcpAlwaysIcmp(e, cfg) ==
    [e EXCEPT !.pc = "icmp",
              !.metrics = IF cfg.measure_jitter
                          THEN AdvancedMetrics(e.lat, cfg.attempts)
                          ELSE MedianMetrics(e.lat)]

\* the verification is made whatever tls.enabled says
AfterTcpTlsAlways(e, cfg) ==
    LET m == IF cfg.measure_jitter THEN AdvancedMetrics(e.lat, cfg.attempts)
             ELSE MedianMetrics(e.lat)
    IN IF m.ok /\ m.median2 # None
       THEN LET ms == Max(1, m.median2 \div 2)
            IN IF e.cands # <<>>
               THEN IF TriedHosts(e.cands, cfg.try_hosts_limit) = <<>>
                    THEN AttemptReturn(e, cfg, ms, "available_tls", m)
                    ELSE [e EXCEPT !.pc = "tls", !.k = 1, !.ms = ms, !.metrics = m]
               ELSE AttemptReturn(e, cfg, ms, "available", m)
       ELSE [e EXCEPT !.pc = "icmp", !.metrics = m]

\* test_one_ip_advanced once the TCP sampling loop has ended: lines 1026-1064
AfterTcp(e, cfg) ==
    LET m == IF cfg.measure_jitter THEN AdvancedMetrics(e.lat, cfg.attempts)
             ELSE MedianMetrics(e.lat)
    IN IF m.ok /\ m.median2 # None
       THEN LET ms == Max(1, m.median2 \div 2)
            IN IF cfg.tls_enabled /\ e.cands # <<>>
               THEN IF TriedHosts(e.cands, cfg.try_hosts_limit) = <<>>
                    THEN AttemptReturn(e, cfg, ms, "available_tls", m)
                    ELSE [e EXCEPT !.pc = "tls", !.k = 1, !.ms = ms, !.metrics = m]
               ELSE AttemptReturn(e, cfg, ms, "available", m)
       ELSE [e EXCEPT !.pc = "icmp", !.metrics = m]

\* number of probes of the sampling loop
ProbeCount(cfg) == IF cfg.measure_jitter THEN cfg.attempts ELSE Max(1, cfg.attempts)

\* a worker thread takes the queued call and starts running it
WorkerPickup(t) ==
    /\ ev[t].pc = "pending"
    /\ ev' = [ev EXCEPT ![t].pc = "attempt"]
    /\ UNCHANGED <<tester, stop_test, stop_event, orchVars>>

\* an entry that does not read the stop signal: the sampling loop is the
\* first to read it
AttemptBeginUnchecked(t) ==
    /\ ev[t].pc = "attempt"
    /\ ev' = [ev EXCEPT ![t] =
                [ev[t] EXCEPT !.attempts = @ + 1, !.i = 0, !.lat = <<>>,
                              !.ms = None, !.k = 0, !.tried = <<>>, !.pings = 0,
                              !.report = None, !.tls_used_host = "none",
                              !.tls_error = "none", !.pc = "tcp"]]
    /\ UNCHANGED <<tester, stop_test, stop_event, orchVars>>

\* head of the retry loop and entry of test_one_ip_advanced: lines 1203-1206, 1007-1008
AttemptBegin(t) ==
    /\ ev[t].pc = "attempt"
    /\ LET cfg == tester[t[1]]
           e == [ev[t] EXCEPT !.attempts = @ + 1, !.i = 0, !.lat = <<>>,
                              !.ms = None, !.k = 0, !.tried = <<>>, !.pings = 0,
                              !.report = None,
                              !.tls_used_host = "none", !.tls_error = "none"]
       IN ev' = [ev EXCEPT ![t] =
                   IF should_stop
                   THEN AttemptReturn([e EXCEPT !.saw_stop = TRUE], cfg,
                                      SENTINEL_MS, "stopped", NoMetrics)
                   ELSE [e EXCEPT !.pc = "tcp"]]
    /\ UNCHANGED <<tester, stop_test, stop_event, orchVars>>

\* one iteration of the sampling loop of tcp_advanced_metrics / tcp_median_rtt_ms
TcpProbe(t) ==
    /\ ev[t].pc = "tcp"
    /\ LET cfg == tester[t[1]]
           e == ev[t]
       IN IF should_stop
          THEN ev' = [ev EXCEPT ![t] = AfterTcp([e EXCEPT !.saw_stop = TRUE], cfg)]
          ELSE \E rtt \in ProbeOutcomes(cfg, t[2]) :
                 LET e2 == [e EXCEPT !.i = @ + 1,
                               !.lat = IF rtt = None THEN @ ELSE Append(@, rtt)]
                 IN ev' = [ev EXCEPT ![t] =
                             IF rtt = OSErrorRaised THEN [e EXCEPT !.pc = "raised"]
                             ELSE IF e2.i < ProbeCount(cfg) THEN e2
                             ELSE AfterTcp(e2, cfg)]
    /\ UNCHANGED <<tester, stop_test, stop_event, orchVars>>

\* one iteration of the loop of tls_sni_verify_any: lines 687-695
TlsVerify(t) ==
    /\ ev[t].pc = "tls"
    /\ LET cfg == tester[t[1]]
           e == ev[t]
           hs == TriedHosts(e.cands, cfg.try_hosts_limit)
           h == hs[e.k]
       IN IF should_stop
          THEN ev' = [ev EXCEPT ![t] =
                        TlsFailed([e EXCEPT !.saw_stop = TRUE], cfg, h, "stopped")]
          ELSE \E r \in net[t[2]].tls :
                 LET e2 == [e EXCEPT !.tried = Append(@, [h |-> h, r |-> r])]
                 IN ev' = [ev EXCEPT ![t] =
                             IF r = "ok"
                             THEN AttemptReturn([e2 EXCEPT !.tls_used_host = h], cfg,
                                                e.ms, "available_tls", e.metrics)
                             ELSE IF e.k = Len(hs) THEN TlsFailed(e2, cfg, h, r)
                             ELSE [e2 EXCEPT !.k = @ + 1]]
    /\ UNCHANGED <<tester, stop_test, stop_event, orchVars>>

\* ICMP fallback of test_one_ip_advanced: lines 1064-1070
IcmpFallback(t) ==
    /\ ev[t].pc = "icmp"
    /\ LET cfg == tester[t[1]]
           e == ev[t]
       IN IF ~cfg.icmp_enabled
          THEN ev' = [ev EXCEPT ![t] =
                        AttemptReturn(e, cfg, SENTINEL_MS, "failed", e.metrics)]
          ELSE IF should_stop
          THEN ev' = [ev EXCEPT ![t] =
                        AttemptReturn([e EXCEPT !.saw_stop = TRUE], cfg,
                                      SENTINEL_MS, "failed", e.metrics)]
          ELSE \E report \in net[t[2]].icmp :
                 LET icmp_ms == icmp_ping_once(report)
                     e2 == [e EXCEPT !.pings = @ + 1, !.report = report]
                 IN ev' = [ev EXCEPT ![t] =
                             IF icmp_ms # None
                             THEN AttemptReturn(e2, cfg, icmp_ms, "available_icmp",
                                      [NoMetrics EXCEPT !.median2 = 2 * icmp_ms])
                             ELSE AttemptReturn(e2, cfg, SENTINEL_MS, "failed",
                                                e.metrics)]
    /\ UNCHANGED <<tester, stop_test, stop_event, orchVars>>

\* time.sleep(wait_time) of test_with_retry, line 1226: the time of the
\* wait passes (one tick stands for wait_time); the sleep reads no stop signal
BackoffSleep(t) ==
    /\ ev[t].pc = "backoff"
    /\ ev[t].wait > 0
    /\ ev' = [ev EXCEPT ![t].wait = @ - 1]
    /\ UNCHANGED <<tester, stop_test, stop_event, orchVars>>

\* the backoff sleep of test_with_retry ends: lines 1224-1226, back to 1203
BackoffDone(t) ==
    /\ ev[t].pc = "backoff"
    /\ ev[t].wait = 0
    /\ ev' = [ev EXCEPT ![t].pc = "attempt", ![t].retry = @ + 1]
    /\ UNCHANGED <<tester, stop_test, stop_event, orchVars>>

\* the stop signal is raised by the owner of the tester while it evaluates
SetStop ==
    /\ ~should_stop
    /\ stop_test' = TRUE
    /\ stop_event' = TRUE
    /\ UNCHANGED <<tester, ev, orchVars>>

-----------------------------------------------------------------------------
(* The hosts file (hosts_file.py) and HostsOptimizer._do_write.            *)

\* a text of the hosts file: the lines outside the SmartHostsTool block, the
\* records of the block (<<>> without block), and whether the text is whole
\* or the beginning that a broken write left behind
OriginalHosts == [base |-> "hosts", block |-> <<>>, whole |-> TRUE]

\* the file after open(..., "w") truncated it and nothing was written
EmptyHosts == [base |-> "", block |-> <<>>, whole |-> TRUE]

\* a proper beginning of text, left by a write that broke off
CutOff(text) == [base |-> text.base, block |-> <<>>, whole |-> FALSE]

\* what the file system can refuse: "read" the read of the hosts file,
\* "backup" the copy into the backup directory, "denied" the opening of the
\* hosts file or of a file beside it for writing, "io" a write or copy under way
Faults == {"read", "backup", "denied", "io"}

\* the hosts file before any write, on a system that can only deny the write
InitialHosts == [file |-> OriginalHosts, backup |-> <<>>, steps |-> <<>>, faults |-> {"denied"}]

\* remove_existing_smart_block(content).content.rstrip() + build_block(records)
FinalText(content, records) == [content EXCEPT !.block = records]

\* scheme 3 of write_hosts_atomic: hosts_path + ".smarttmp", then os.replace
Scheme3(file, text, faults) ==
    {[file |-> text, returned |-> TRUE]}
      \cup (IF faults \cap {"denied", "io"} # {}
            THEN {[file |-> file, returned |-> FALSE]}
            ELSE {})

\* scheme 2 of write_hosts_atomic: a temporary file, then shutil.copy2 over
\* the hosts file, which opens the hosts file for writing and copies into it
Scheme2(file, text, faults) ==
    {[file |-> text, returned |-> TRUE]}
      \cup (IF "denied" \in faults THEN Scheme3(file, text, faults) ELSE {})
      \cup (IF "io" \in faults
            THEN UNION {Scheme3(left, text, faults) :
                           left \in {file, EmptyHosts, CutOff(text)}}
            ELSE {})

\* HostsFileManager.write_hosts_atomic without the restart as administrator:
\* scheme 1 opens the hosts file with mode "w" and writes the text into it;
\* the outcomes are the file afterwards and whether the call returned (TRUE)
\* or raised PermissionError (FALSE)
write_hosts_atomic(file, text, faults) ==
    {[file |-> text, returned |-> TRUE]}
      \cup (IF "denied" \in faults THEN Scheme2(file, text, faults) ELSE {})
      \cup (IF "io" \in faults
            THEN UNION {Scheme2(left, text, faults) :
                           left \in {EmptyHosts, CutOff(text)}}
            ELSE {})

\* a _do_write that goes on to the write when the backup could not be made
DoWriteBackupOptional(h, records) ==
    (IF "read" \in h.faults
     THEN {[state |-> [h EXCEPT !.steps = <<"read_failed">>], ok |-> FALSE]}
     ELSE {})
      \cup {[state |-> [h EXCEPT !.file = o.file,
                                 !.backup = IF made THEN <<h.file>> ELSE h.backup,
                                 !.steps = IF o.returned
                                           THEN <<"read", "backup", "write">>
                                           ELSE <<"read", "backup", "write", "raised">>],
             ok |-> o.returned] :
               o \in write_hosts_atomic(h.file, FinalText(h.file, records), h.faults),
               made \in IF "backup" \in h.faults THEN BOOLEAN ELSE {TRUE}}

\* the outcomes of the try block of _do_write for the records: the state of
\* the hosts file afterwards, with the steps taken, and whether the "hosts updated" status was reached
DoWriteOutcomes(h, records) ==
    (IF "read" \in h.faults
     THEN {[state |-> [h EXCEPT !.steps = <<"read_failed">>], ok |-> FALSE]}
     ELSE {})
      \cup (IF "backup" \in h.faults
            THEN {[state |-> [h EXCEPT !.steps = <<"read", "backup_failed">>],
                   ok |-> FALSE]}
            ELSE {})
      \cup {[state |-> [h EXCEPT !.file = o.file,
                                 !.backup = <<h.file>>,
                                 !.steps = IF o.returned
                                           THEN <<"read", "backup", "write">>
                                           ELSE <<"read", "backup", "write", "raised">>],
             ok |-> o.returned] :
               o \in write_hosts_atomic(h.file, FinalText(h.file, records), h.faults)}

\* HostsOptimizer._do_write(records); label is the status shown when the
\* write failed
do_write(records, label) ==
    /\ written' = records
    /\ \E o \in DoWriteOutcomes(hosts_file, records) :
         /\ hosts_file' = o.state
         /\ status_label' = IF o.ok THEN "hosts_updated" ELSE label

-----------------------------------------------------------------------------
(* Specification of one evaluation: an EnhancedSpeedTester built with a    *)
(* configuration, one call of test_with_retry, the stop signal raised at   *)
(* any moment.                                                             *)

EvalTask == <<1, "140.82.112.3">>

CandidateChoices ==
    { <<>>, <<"github.com">>, <<"GitHub.com", "github.com", "api.github.com">>,
      <<" ">> }

InitEval ==
    /\ \E cfg \in EvalConfigs :
          /\ speed_test_config = cfg
          /\ tester = [r \in Runs |-> cfg]
    /\ stop_test = FALSE
    /\ stop_event = FALSE
    /\ \E cands \in CandidateChoices :
          ev = [t \in Tasks |->
                  IF t = EvalTask THEN [Submitted(cands) EXCEPT !.pc = "attempt"]
                  ELSE NoEval]
    /\ net = [ip \in IPS |-> AnyNet]
    /\ remote_hosts_data = <<>>
    /\ smart_resolved_ips = <<>>
    /\ collector = [r \in Runs |-> NoCollector]
    /\ executor = 0
    /\ futures = 0
    /\ shut = [r \in Runs |-> FALSE]
    /\ ip_to_domains = <<>>
    /\ test_results = <<>>
    /\ total_ip_tests = 0
    /\ completed_ip_tests = 0
    /\ ui_queue = <<>>
    /\ start_test_btn = TRUE
    /\ pause_test_btn = FALSE
    /\ status_label = "idle"
    /\ written = <<>>
    /\ hosts_file = InitialHosts
    /\ sched = NoSchedule
    /\ SPEED_TEST_CONFIG = DefaultConfig
    /\ config_file = NoFile

NextEval ==
    \/ AttemptBegin(EvalTask)
    \/ TcpProbe(EvalTask)
    \/ TlsVerify(EvalTask)
    \/ IcmpFallback(EvalTask)
    \/ BackoffSleep(EvalTask)
    \/ BackoffDone(EvalTask)
    \/ SetStop

SpecEval == InitEval /\ [][NextEval]_vars

-----------------------------------------------------------------------------
(* Selection of the best address per domain (write_best_ip_to_hosts).      *)

\* a key that gives the bonus to every status naming TLS
rank_key_any_tls(row) ==
    LET ms == row[3]
        jitter == row[6]
        stability == row[7]
        score == 100 * ms
                 + (IF jitter > 0 THEN 150 * jitter ELSE 0)
                 + (IF stability > 0 THEN 2 * (10000 - stability) ELSE 0)
                 - (IF row[4] \in {"available_tls", "available_tcp_tls_failed"}
                    THEN TLS_BONUS ELSE 0)
    IN <<score, 100 * ms>>

\* HostsOptimizer._rank_key_for_result_row on a 7-tuple row: (score, ms),
\* the score in hundredths
rank_key_for_result_row(row) ==
    LET ms == row[3]
        jitter == row[6]
        stability == row[7]
        score == 100 * ms
                 + (IF jitter > 0 THEN 150 * jitter ELSE 0)
                 + (IF stability > 0 THEN 2 * (10000 - stability) ELSE 0)
                 - (IF HasTlsTag(row[4]) THEN TLS_BONUS ELSE 0)
    IN <<score, 100 * ms>>

\* the comparison turned round: rk1 > rk2
KeyGreater(rk1, rk2) == rk1[1] > rk2[1] \/ (rk1[1] = rk2[1] /\ rk1[2] > rk2[2])

\* tuple comparison rk1 < rk2
KeyLess(rk1, rk2) == rk1[1] < rk2[1] \/ (rk1[1] = rk2[1] /\ rk1[2] < rk2[2])

\* best[d] = (ip, ms, rk) on an insertion-ordered dict, if d is new or rk smaller
Better(best, d, ip, ms, rk) ==
    IF \E j \in 1..Len(best) : best[j].d = d
    THEN [j \in 1..Len(best) |->
            IF best[j].d = d /\ KeyLess(rk, best[j].rk)
            THEN [d |-> d, ip |-> ip, ms |-> ms, rk |-> rk]
            ELSE best[j]]
    ELSE Append(best, [d |-> d, ip |-> ip, ms |-> ms, rk |-> rk])

RECURSIVE BestAnyAllRows(_, _)
\* a selection that ranks every row, whatever its status
BestAnyAllRows(rows, best_any) ==
    IF rows = <<>> THEN best_any
    ELSE LET row == Head(rows)
         IN BestAnyAllRows(Tail(rows),
                Better(best_any, row[2], row[1], row[3],
                       rank_key_for_result_row(row)))

RECURSIVE BestAny(_, _)
\* write_best_ip_to_hosts, lines 2062-2075
BestAny(rows, best_any) ==
    IF rows = <<>> THEN best_any
    ELSE LET row == Head(rows)
         IN BestAny(Tail(rows),
                IF IsAvailable(row[4])
                THEN Better(best_any, row[2], row[1], row[3],
                            rank_key_for_result_row(row))
                ELSE best_any)

RECURSIVE BestTls(_, _)
\* write_best_ip_to_hosts, lines 2062-2070 and 2078-2081
BestTls(rows, best_tls) ==
    IF rows = <<>> THEN best_tls
    ELSE LET row == Head(rows)
         IN BestTls(Tail(rows),
                IF IsAvailable(row[4]) /\ HasTlsTag(row[4])
                THEN Better(best_tls, row[2], row[1], row[3],
                            rank_key_for_result_row(row))
                ELSE best_tls)

\* a merge that keeps the best row of any kind
MergeBestNoTls(best_any, best_tls) == best_any

\* write_best_ip_to_hosts, lines 2084-2086: best[d] = best_tls.get(d, v)
MergeBest(best_any, best_tls) ==
    [j \in 1..Len(best_any) |->
        IF \E k \in 1..Len(best_tls) : best_tls[k].d = best_any[j].d
        THEN CHOOSE v \in {best_tls[k] : k \in 1..Len(best_tls)} :
                 v.d = best_any[j].d
        ELSE best_any[j]]

\* the records write_best_ip_to_hosts hands to _do_write
BestRecords(rows) ==
    LET best == MergeBest(BestAny(rows, <<>>), BestTls(rows, <<>>))
    IN [j \in 1..Len(best) |-> <<best[j].ip, best[j].d>>]

-----------------------------------------------------------------------------
(* Orchestration: HostsOptimizer.start_test and what it sets going.        *)
(* The handlers start_test, pause_test, _on_one_ip_finished and            *)
(* _finish_speedtest_ui run on the Tk main thread, one at a time; the      *)
(* collector threads and the pool workers run beside them.  The model      *)
(* follows the default advanced_metrics_var = True (EnhancedSpeedTester).  *)

\* tls.preferred_hosts of the configuration
PREFERRED_HOSTS ==
    <<"github.com", "api.github.com", "raw.githubusercontent.com",
      "githubusercontent.com", "github.githubassets.com">>

\* str.strip on the strings of the model
Strip(x) ==
    CASE x = "140.82.112.3 " -> "140.82.112.3"
      [] x = " " -> ""
      [] OTHER -> x

\* str.lower on the strings of the model
Lower(x) ==
    CASE x = "GitHub.com" -> "github.com"
      [] OTHER -> x

InSeq(x, q) == \E j \in 1..Len(q) : q[j] = x

\* a de-duplication that strips the pairs and keeps the repeats
KeepRepeats(raw, seen_pair, pairs) ==
    [j \in 1..Len(raw) |-> <<Strip(raw[j][1]), Strip(raw[j][2])>>]

RECURSIVE DedupPairs(_, _, _)
\* start_test, lines 1733-1741
DedupPairs(raw, seen_pair, pairs) ==
    IF raw = <<>> THEN pairs
    ELSE LET key == <<Strip(Head(raw)[1]), Strip(Head(raw)[2])>>
         IN IF key \in seen_pair
            THEN DedupPairs(Tail(raw), seen_pair, pairs)
            ELSE DedupPairs(Tail(raw), seen_pair \cup {key}, Append(pairs, key))

\* dict.setdefault(ip, []).append(dom) on an insertion-ordered dict
SetDefaultAppend(map, ip, dom) ==
    IF \E j \in 1..Len(map) : map[j].ip = ip
    THEN [j \in 1..Len(map) |->
            IF map[j].ip = ip THEN [map[j] EXCEPT !.doms = Append(@, dom)]
            ELSE map[j]]
    ELSE Append(map, [ip |-> ip, doms |-> <<dom>>])

RECURSIVE GroupByIp(_, _)
\* start_test, lines 1744-1746
GroupByIp(pairs, map) ==
    IF pairs = <<>> THEN map
    ELSE GroupByIp(Tail(pairs), SetDefaultAppend(map, Head(pairs)[1], Head(pairs)[2]))

\* dict.keys()
Keys(map) == {map[j].ip : j \in 1..Len(map)}

\* dict.get(ip, default)
DictGet(map, ip, default) ==
    IF ip \in Keys(map)
    THEN (CHOOSE e \in {map[j] : j \in 1..Len(map)} : e.ip = ip).doms
    ELSE default

RECURSIVE Cleaned(_, _)
\* build_sni_candidates, lines 1770-1780: strip, drop blanks and
\* case-insensitive repeats
Cleaned(domains, acc) ==
    IF domains = <<>> THEN acc
    ELSE LET dd == Strip(Head(domains))
         IN IF dd = "" \/ \E j \in 1..Len(acc) : Lower(acc[j]) = Lower(dd)
            THEN Cleaned(Tail(domains), acc)
            ELSE Cleaned(Tail(domains), Append(acc, dd))

\* no domain is moved to the front
PreferredIgnored(preferred, cleaned, out) == out

RECURSIVE PreferredFirst(_, _, _)
\* build_sni_candidates, lines 1785-1788
PreferredFirst(preferred, cleaned, out) ==
    IF preferred = <<>> THEN out
    ELSE LET pl == Lower(Strip(Head(preferred)))
             hit == {c \in {cleaned[j] : j \in 1..Len(cleaned)} : Lower(c) = pl}
         IN IF hit # {} /\ ~InSeq(CHOOSE c \in hit : TRUE, out)
            THEN PreferredFirst(Tail(preferred), cleaned,
                                Append(out, CHOOSE c \in hit : TRUE))
            ELSE PreferredFirst(Tail(preferred), cleaned, out)

RECURSIVE AppendMissing(_, _)
\* build_sni_candidates, lines 1789-1791
AppendMissing(cleaned, out) ==
    IF cleaned = <<>> THEN out
    ELSE AppendMissing(Tail(cleaned),
            IF InSeq(Head(cleaned), out) THEN out ELSE Append(out, Head(cleaned)))

\* start_test.build_sni_candidates
build_sni_candidates(domains, preferred_hosts, try_hosts_limit) ==
    LET cleaned == Cleaned(domains, <<>>)
        out == AppendMissing(cleaned, PreferredFirst(preferred_hosts, cleaned, <<>>))
    IN IF cleaned = <<>> THEN <<>>
       ELSE SubSeq(out, 1, Min(Max(1, try_hosts_limit), Len(out)))

\* ThreadPoolExecutor.shutdown(wait=False, cancel_futures=True) of run r's
\* executor: the calls still queued are cancelled, the running ones go on
CancelQueued(e, r) ==
    [t \in Tasks |->
        IF t[1] = r /\ e[t].pc = "pending" THEN [e[t] EXCEPT !.pc = "cancelled"]
        ELSE e[t]]

\* the body of HostsOptimizer.start_test, lines 1724-1856
start_test_call ==
    /\ executor < MaxRuns
    /\ LET r == executor + 1
           raw_pairs == remote_hosts_data \o smart_resolved_ips
           map == GroupByIp(DedupPairs(raw_pairs, {}, <<>>), <<>>)
       IN IF raw_pairs = <<>>
          THEN /\ test_results' = <<>>
               /\ UNCHANGED <<speed_test_config, tester, stop_test, stop_event, ev,
                              collector, executor, futures, shut, ip_to_domains,
                              total_ip_tests, completed_ip_tests,
                              start_test_btn, pause_test_btn, status_label>>
          ELSE /\ test_results' = <<>>
               /\ ip_to_domains' = map
               /\ start_test_btn' = FALSE
               /\ pause_test_btn' = TRUE
               /\ stop_test' = FALSE
               /\ stop_event' = FALSE
               /\ total_ip_tests' = Len(map)
               /\ completed_ip_tests' = 0
               /\ status_label' = "testing"
               /\ tester' = [tester EXCEPT ![r] = speed_test_config]
               /\ executor' = r
               /\ futures' = r
               /\ ev' = [t \in Tasks |->
                           IF t[1] = r /\ t[2] \in Keys(map)
                           THEN Submitted(build_sni_candidates(
                                    DictGet(map, t[2], <<>>), PREFERRED_HOSTS,
                                    speed_test_config.try_hosts_limit))
                           ELSE ev[t]]
               /\ collector' = [collector EXCEPT ![r] =
                                  [pc |-> "start", fs |-> 0, seen |-> {}]]
               /\ UNCHANGED <<speed_test_config, shut>>
    /\ UNCHANGED <<written, hosts_file, net, SPEED_TEST_CONFIG, config_file>>

\* HostsOptimizer.start_test called by the start button (NORMAL)
start_test ==
    /\ start_test_btn
    /\ start_test_call
    /\ UNCHANGED <<ui_queue, remote_hosts_data, smart_resolved_ips, sched>>

\* HostsOptimizer.pause_test (pause button, NORMAL)
pause_test ==
    /\ pause_test_btn
    /\ stop_test' = TRUE
    /\ stop_event' = TRUE
    /\ IF executor # 0
       THEN /\ ev' = CancelQueued(ev, executor)
            /\ shut' = [shut EXCEPT ![executor] = TRUE]
       ELSE UNCHANGED <<ev, shut>>
    /\ status_label' = "stop_requested"
    /\ start_test_btn' = TRUE
    /\ pause_test_btn' = FALSE
    /\ UNCHANGED <<speed_test_config, tester, collector, executor, futures,
                   ip_to_domains, test_results, total_ip_tests,
                   completed_ip_tests, ui_queue, written, hosts_file, net, SPEED_TEST_CONFIG, config_file,
                   remote_hosts_data, smart_resolved_ips, sched>>

\* the futures a collector iterates over
FuturesOf(r) == {ip \in IPS : ev[<<r, ip>>].pc # "none"}

\* _collect_speedtest_results begins: as_completed(self._futures), line 1861
CollectorStart(r) ==
    /\ collector[r].pc = "start"
    /\ collector' = [collector EXCEPT ![r].pc = "wait", ![r].fs = futures]
    /\ UNCHANGED <<speed_test_config, tester, stop_test, stop_event, ev, executor,
                   futures, shut, ip_to_domains, test_results, total_ip_tests,
                   completed_ip_tests, ui_queue, start_test_btn, pause_test_btn,
                   status_label, written, hosts_file, net, SPEED_TEST_CONFIG, config_file,
                   remote_hosts_data, smart_resolved_ips, sched>>

\* a callback that takes the delay of a raised evaluation from its record
OneIpCallbackNoSentinel(ip, e) ==
    IF e.pc = "raised"
    THEN [kind |-> "one_ip", ip |-> "?",
          domains |-> DictGet(ip_to_domains, "?", <<"">>),
          ms |-> e.delay, st |-> "failed_exception", meta |-> NoMetrics]
    ELSE [kind |-> "one_ip", ip |-> ip,
          domains |-> DictGet(ip_to_domains, ip, <<"">>),
          ms |-> e.delay, st |-> e.status, meta |-> e.metrics]

\* fut.result() of lines 1864-1875 and the callback posted at line 1877: a
\* result is unpacked, an exception becomes ("?", 9999, "失败:...")
OneIpCallback(ip, e) ==
    IF e.pc = "raised"
    THEN [kind |-> "one_ip", ip |-> "?",
          domains |-> DictGet(ip_to_domains, "?", <<"">>),
          ms |-> SENTINEL_MS, st |-> "failed_exception", meta |-> NoMetrics]
    ELSE [kind |-> "one_ip", ip |-> ip,
          domains |-> DictGet(ip_to_domains, ip, <<"">>),
          ms |-> e.delay, st |-> e.status, meta |-> e.metrics]

FinishCallback ==
    [kind |-> "finish", ip |-> "", domains |-> <<>>, ms |-> None, st |-> "none",
     meta |-> NoMetrics]

\* one turn of the loop of _collect_speedtest_results, lines 1861-1879:
\* as_completed yields a finished future (a cancelled one is never yielded:
\* Future.cancel() wakes no waiter), the stop signal is read, the result is
\* posted; the loop's end posts _finish_speedtest_ui
CollectorNext(r) ==
    /\ collector[r].pc = "wait"
    /\ LET c == collector[r]
       IN \E ip \in FuturesOf(c.fs) \ c.seen :
            /\ ev[<<c.fs, ip>>].pc \in {"finished", "raised"}
            /\ IF should_stop
               THEN /\ collector' = [collector EXCEPT ![r].pc = "shutdown"]
                    /\ ui_queue' = Append(ui_queue, FinishCallback)
               ELSE LET done == c.seen \cup {ip} = FuturesOf(c.fs)
                        posted == Append(ui_queue, OneIpCallback(ip, ev[<<c.fs, ip>>]))
                    IN /\ collector' = [collector EXCEPT
                                          ![r].pc = IF done THEN "shutdown" ELSE "wait",
                                          ![r].seen = @ \cup {ip}]
                       /\ ui_queue' = IF done THEN Append(posted, FinishCallback)
                                      ELSE posted
    /\ UNCHANGED <<speed_test_config, tester, stop_test, stop_event, ev, executor,
                   futures, shut, ip_to_domains, test_results, total_ip_tests,
                   completed_ip_tests, start_test_btn, pause_test_btn,
                   status_label, written, hosts_file, net, SPEED_TEST_CONFIG, config_file,
                   remote_hosts_data, smart_resolved_ips, sched>>

\* the finally clause of _collect_speedtest_results, lines 1880-1887
CollectorShutdown(r) ==
    /\ collector[r].pc = "shutdown"
    /\ collector' = [collector EXCEPT ![r].pc = "done"]
    /\ IF executor # 0
       THEN /\ ev' = CancelQueued(ev, executor)
            /\ shut' = [shut EXCEPT ![executor] = TRUE]
       ELSE UNCHANGED <<ev, shut>>
    /\ UNCHANGED <<speed_test_config, tester, stop_test, stop_event, executor,
                   futures, ip_to_domains, test_results, total_ip_tests,
                   completed_ip_tests, ui_queue, start_test_btn, pause_test_btn,
                   status_label, written, hosts_file, net, SPEED_TEST_CONFIG, config_file,
                   remote_hosts_data, smart_resolved_ips, sched>>

\* the rows built by _on_one_ip_finished and stored by _add_test_results_batch
ResultRows(ip, domains, ms, st, meta) ==
    LET jitter == IF meta.jitter = None THEN 0 ELSE meta.jitter
        stability == IF meta.stability_score = None THEN 0 ELSE meta.stability_score
    IN [j \in 1..Len(domains) |-> <<ip, domains[j], ms, st, FALSE, jitter, stability>>]

\* a completion callback that does not look at the stop signal
on_one_ip_finished_unchecked ==
    /\ ui_queue # <<>>
    /\ Head(ui_queue).kind = "one_ip"
    /\ ui_queue' = Tail(ui_queue)
    /\ LET cb == Head(ui_queue)
       IN /\ test_results' =
                test_results \o ResultRows(cb.ip, cb.domains, cb.ms, cb.st, cb.meta)
          /\ completed_ip_tests' = completed_ip_tests + 1
          /\ status_label' = "testing"
    /\ UNCHANGED <<speed_test_config, tester, stop_test, stop_event, ev, collector,
                   executor, futures, shut, ip_to_domains, total_ip_tests,
                   start_test_btn, pause_test_btn, written, hosts_file, net, SPEED_TEST_CONFIG, config_file,
                   remote_hosts_data, smart_resolved_ips, sched>>

\* HostsOptimizer._on_one_ip_finished, run by the main loop
on_one_ip_finished ==
    /\ ui_queue # <<>>
    /\ Head(ui_queue).kind = "one_ip"
    /\ ui_queue' = Tail(ui_queue)
    /\ LET cb == Head(ui_queue)
       IN IF should_stop
          THEN UNCHANGED <<test_results, completed_ip_tests, status_label>>
          ELSE /\ test_results' =
                     test_results \o ResultRows(cb.ip, cb.domains, cb.ms, cb.st, cb.meta)
               /\ completed_ip_tests' = completed_ip_tests + 1
               /\ status_label' = "testing"
    /\ UNCHANGED <<speed_test_config, tester, stop_test, stop_event, ev, collector,
                   executor, futures, shut, ip_to_domains, total_ip_tests,
                   start_test_btn, pause_test_btn, written, hosts_file, net, SPEED_TEST_CONFIG, config_file,
                   remote_hosts_data, smart_resolved_ips, sched>>

\* an id Tk has not handed out among those still known
FreshTimer(s) ==
    CHOOSE id \in 1..(MaxTimers + 2) :
        /\ id \notin s.timers \cup {s.after_id}
        /\ \A other \in 1..(id - 1) : other \in s.timers \cup {s.after_id}

\* self._scheduled_test_after_id = self.master.after(interval_ms, self._run_scheduled_test)
after_run_scheduled_test(s) ==
    [s EXCEPT !.after_id = FreshTimer(s), !.timers = @ \cup {FreshTimer(s)}]

\* HostsOptimizer._start_scheduled_test, lines 395-405
start_scheduled_test(s) == IF s.after_id # 0 THEN s ELSE after_run_scheduled_test(s)

\* HostsOptimizer._stop_scheduled_test, lines 407-415: after_cancel of an
\* id that has fired is a no-op
stop_scheduled_test(s) ==
    IF s.after_id # 0 THEN [s EXCEPT !.timers = @ \ {s.after_id}, !.after_id = 0]
    ELSE s

\* HostsOptimizer._schedule_next_test, lines 446-450
schedule_next_test(s) == IF s.enabled THEN after_run_scheduled_test(s) ELSE s

\* the step leaves at most MaxTimers timers
TimerRoom == Cardinality(sched'.timers) <= MaxTimers

\* HostsOptimizer._finish_speedtest_ui, run by the main loop; after a
\* scheduled test, _on_scheduled_test_complete and _schedule_next_test
finish_speedtest_ui ==
    /\ ui_queue # <<>>
    /\ Head(ui_queue).kind = "finish"
    /\ ui_queue' = Tail(ui_queue)
    /\ start_test_btn' = TRUE
    /\ pause_test_btn' = FALSE
    /\ LET label == IF should_stop THEN "stopped" ELSE "done"
           records == BestRecords(test_results)
       IN IF sched.running
          THEN /\ sched' = schedule_next_test([sched EXCEPT !.running = FALSE])
               /\ TimerRoom
               /\ IF sched.auto_write /\ records # <<>>
                  THEN do_write(records, label)
                  ELSE /\ status_label' = label
                       /\ UNCHANGED <<written, hosts_file>>
          ELSE /\ status_label' = label
               /\ UNCHANGED <<written, hosts_file, sched>>
    /\ UNCHANGED <<speed_test_config, tester, stop_test, stop_event, ev, collector,
                   executor, futures, shut, ip_to_domains, test_results,
                   total_ip_tests, completed_ip_tests, net, SPEED_TEST_CONFIG, config_file,
                   remote_hosts_data, smart_resolved_ips>>

\* a pool worker may take a queued call when fewer than max_workers run
PoolHasWorker(r) ==
    Cardinality({ip \in IPS : ev[<<r, ip>>].pc
                     \in {"attempt", "tcp", "tls", "icmp", "backoff"}})
        < Min(MAX_POOL_WORKERS, Max(1, Cardinality(FuturesOf(r))))

Worker(t) ==
    \/ PoolHasWorker(t[1]) /\ WorkerPickup(t)
    \/ AttemptBegin(t)
    \/ TcpProbe(t)
    \/ TlsVerify(t)
    \/ IcmpFallback(t)
    \/ BackoffSleep(t)
    \/ BackoffDone(t)

\* candidate pairs loaded before the test: the remote hosts list and the
\* resolver's answers (one pair repeated, once with trailing blanks)
OneAddress ==
    << <<"140.82.112.3", "github.com">>, <<"140.82.112.3", "api.github.com">> >>

TwoAddresses ==
    << <<"140.82.112.3", "github.com">>, <<"140.82.112.3", "api.github.com">>,
       <<"140.82.112.4", "github.com">> >>

Resolved == << <<"140.82.112.3 ", "github.com">> >>

\* configuration and networks of the orchestration runs
OrchConfig == ConfigOf(1, 2000, TRUE, FALSE, 1, TRUE, TRUE, 1, TRUE)

\* every address answers, or none does
OrchNets ==
    { [ip \in IPS |-> [tcp |-> {30}, tls |-> {"ok"}, icmp |-> {None}]],
      [ip \in IPS |-> [tcp |-> {None}, tls |-> {"timeout"}, icmp |-> {None}]] }

Init ==
    /\ speed_test_config = OrchConfig
    /\ tester = [r \in Runs |-> OrchConfig]
    /\ net \in OrchNets
    /\ remote_hosts_data = OneAddress
    /\ smart_resolved_ips = Resolved
    /\ stop_test = FALSE
    /\ stop_event = FALSE
    /\ ev = [t \in Tasks |-> NoEval]
    /\ collector = [r \in Runs |-> NoCollector]
    /\ executor = 0
    /\ futures = 0
    /\ shut = [r \in Runs |-> FALSE]
    /\ ip_to_domains = <<>>
    /\ test_results = <<>>
    /\ total_ip_tests = 0
    /\ completed_ip_tests = 0
    /\ ui_queue = <<>>
    /\ start_test_btn = TRUE
    /\ pause_test_btn = FALSE
    /\ status_label = "idle"
    /\ written = <<>>
    /\ hosts_file = InitialHosts
    /\ sched = NoSchedule
    /\ SPEED_TEST_CONFIG = DefaultConfig
    /\ config_file = NoFile

Next ==
    \/ start_test
    \/ pause_test
    \/ on_one_ip_finished
    \/ finish_speedtest_ui
    \/ \E r \in Runs : CollectorStart(r)
    \/ \E r \in Runs : CollectorNext(r)
    \/ \E r \in Runs : CollectorShutdown(r)
    \/ \E t \in Tasks : Worker(t)

Spec == Init /\ [][Next]_vars

\* Scheduling: a thread that can take a step takes it, and the Tk main loop
\* runs the callbacks posted to it; pressing a button is up to the user.
Fairness ==
    /\ \A t \in Tasks : WF_vars(Worker(t))
    /\ \A r \in Runs : WF_vars(CollectorStart(r))
    /\ \A r \in Runs : WF_vars(CollectorNext(r))
    /\ \A r \in Runs : WF_vars(CollectorShutdown(r))
    /\ WF_vars(on_one_ip_finished)
    /\ WF_vars(finish_speedtest_ui)

SpecFair == Spec /\ Fairness

-----------------------------------------------------------------------------
(* The write to hosts and one uninterrupted test followed by it.           *)

\* a write that hands the selection to _do_write even when it is empty
write_best_unguarded ==
    /\ do_write(BestRecords(test_results), status_label)
    /\ UNCHANGED <<speed_test_config, tester, stop_test, stop_event, ev, collector,
                   executor, futures, shut, ip_to_domains, test_results,
                   total_ip_tests, completed_ip_tests, ui_queue, start_test_btn,
                   pause_test_btn, net, SPEED_TEST_CONFIG, config_file,
                   remote_hosts_data, smart_resolved_ips, sched>>

\* HostsOptimizer.write_best_ip_to_hosts ("write best" button)
write_best_ip_to_hosts ==
    /\ LET records == BestRecords(test_results)
       IN IF records = <<>>
          THEN UNCHANGED <<written, hosts_file, status_label>>
          ELSE do_write(records, status_label)
    /\ UNCHANGED <<speed_test_config, tester, stop_test, stop_event, ev, collector,
                   executor, futures, shut, ip_to_domains, test_results,
                   total_ip_tests, completed_ip_tests, ui_queue, start_test_btn,
                   pause_test_btn, net, SPEED_TEST_CONFIG, config_file,
                   remote_hosts_data, smart_resolved_ips, sched>>

\* configuration and networks of the selection runs: two samples per address
SelectConfig == ConfigOf(2, 2000, TRUE, FALSE, 1, TRUE, TRUE, 1, TRUE)

SelectProfiles ==
    { [tcp |-> {30, 45}, tls |-> {"ok"}, icmp |-> {None}],
      [tcp |-> {30}, tls |-> {"cert_verify"}, icmp |-> {None}],
      [tcp |-> {None}, tls |-> {"timeout"}, icmp |-> {80}],
      [tcp |-> {None}, tls |-> {"timeout"}, icmp |-> {None}] }

InitSelect ==
    /\ speed_test_config = SelectConfig
    /\ tester = [r \in Runs |-> SelectConfig]
    /\ net \in {f \in [IPS -> SelectProfiles] :
                   f["199.232.69.194"] = [tcp |-> {None}, tls |-> {"timeout"},
                                          icmp |-> {None}]}
    /\ remote_hosts_data = TwoAddresses
    /\ smart_resolved_ips = Resolved
    /\ stop_test = FALSE
    /\ stop_event = FALSE
    /\ ev = [t \in Tasks |-> NoEval]
    /\ collector = [r \in Runs |-> NoCollector]
    /\ executor = 0
    /\ futures = 0
    /\ shut = [r \in Runs |-> FALSE]
    /\ ip_to_domains = <<>>
    /\ test_results = <<>>
    /\ total_ip_tests = 0
    /\ completed_ip_tests = 0
    /\ ui_queue = <<>>
    /\ start_test_btn = TRUE
    /\ pause_test_btn = FALSE
    /\ status_label = "idle"
    /\ written = <<>>
    /\ hosts_file = InitialHosts
    /\ sched = NoSchedule
    /\ SPEED_TEST_CONFIG = DefaultConfig
    /\ config_file = NoFile

\* one uninterrupted test, then the write
NextSelect ==
    \/ executor = 0 /\ start_test
    \/ on_one_ip_finished
    \/ finish_speedtest_ui
    \/ CollectorStart(1)
    \/ CollectorNext(1)
    \/ CollectorShutdown(1)
    \/ \E ip \in IPS : Worker(<<1, ip>>)
    \/ write_best_ip_to_hosts

SpecSelect == InitSelect /\ [][NextSelect]_vars

-----------------------------------------------------------------------------
(* The settings dialog.  A configuration is a dict of nested dicts ("tcp", *)
(* "tls", "icmp", "retry", "advanced"); dict.copy() is shallow, so the     *)
(* copy given to a tester holds the same nested dicts as the dict it was   *)
(* copied from.  The field sections names the nested dicts a configuration *)
(* holds: 0 for those of SPEED_TEST_CONFIG, a new number for each set of   *)
(* copies.                                                                 *)

\* a number naming nested dicts that no configuration holds yet
FreshSections ==
    1 + CHOOSE m \in 0..MaxSaves :
          /\ m \in {speed_test_config.sections} \cup {tester[r].sections : r \in Runs}
          /\ \A r \in Runs : tester[r].sections <= m
          /\ speed_test_config.sections <= m

\* json.dump(config, f): the values of a configuration in the file
FileOf(cfg) == [cfg EXCEPT !.sections = 0]

\* what a dict reads after values were written into the nested dicts of w
ReadThrough(view, w) == IF view.sections = w.sections THEN w ELSE view

\* a merge that updates the nested dicts of the current configuration
MergedInPlace(old, validated, fresh) == [validated EXCEPT !.sections = old.sections]

\* save_config, lines 1466-1487: new_config holds copies of the nested
\* dicts, updated with the validated values
MergedConfig(old, validated, fresh) == [validated EXCEPT !.sections = fresh]

\* values entered in the dialog
DialogConfigs ==
    { ConfigOf(2, 20000, TRUE, TRUE, 2, FALSE, TRUE, 1, FALSE),
      ConfigOf(1, 2000, FALSE, FALSE, 1, TRUE, FALSE, 0, TRUE) }

\* save_config of show_speed_test_settings ("save" button of the dialog);
\* the configuration manager writes the file or fails
save_config ==
    /\ FreshSections <= MaxSaves
    /\ \E validated \in DialogConfigs, saved \in BOOLEAN :
          LET new_config == MergedConfig(speed_test_config, validated, FreshSections)
          IN /\ tester' = [r \in Runs |-> ReadThrough(tester[r], new_config)]
             /\ speed_test_config' =
                   IF saved THEN new_config
                   ELSE ReadThrough(speed_test_config, new_config)
             /\ config_file' = IF saved THEN FileOf(new_config) ELSE config_file
    /\ UNCHANGED <<stop_test, stop_event, ev, collector, executor, futures, shut,
                   ip_to_domains, test_results, total_ip_tests,
                   completed_ip_tests, ui_queue, start_test_btn, pause_test_btn,
                   status_label, written, hosts_file, net, SPEED_TEST_CONFIG,
                   remote_hosts_data, smart_resolved_ips, sched>>

\* reset_to_default of show_speed_test_settings, which takes the result of
\* SpeedTestConfigManager.reset_to_default: SPEED_TEST_CONFIG.copy(), saved
\* (the manager writes the file or fails) and returned
reset_to_default ==
    /\ speed_test_config' = SPEED_TEST_CONFIG
    /\ \E saved \in BOOLEAN :
          config_file' = IF saved THEN FileOf(SPEED_TEST_CONFIG) ELSE config_file
    /\ UNCHANGED <<tester, stop_test, stop_event, ev, collector, executor, futures,
                   shut, ip_to_domains, test_results, total_ip_tests,
                   completed_ip_tests, ui_queue, start_test_btn, pause_test_btn,
                   status_label, written, hosts_file, net, SPEED_TEST_CONFIG,
                   remote_hosts_data, smart_resolved_ips, sched>>

InitSettings ==
    /\ speed_test_config = DefaultConfig
    /\ tester = [r \in Runs |-> DefaultConfig]
    /\ net \in OrchNets
    /\ remote_hosts_data = OneAddress
    /\ smart_resolved_ips = Resolved
    /\ stop_test = FALSE
    /\ stop_event = FALSE
    /\ ev = [t \in Tasks |-> NoEval]
    /\ collector = [r \in Runs |-> NoCollector]
    /\ executor = 0
    /\ futures = 0
    /\ shut = [r \in Runs |-> FALSE]
    /\ ip_to_domains = <<>>
    /\ test_results = <<>>
    /\ total_ip_tests = 0
    /\ completed_ip_tests = 0
    /\ ui_queue = <<>>
    /\ start_test_btn = TRUE
    /\ pause_test_btn = FALSE
    /\ status_label = "idle"
    /\ written = <<>>
    /\ hosts_file = InitialHosts
    /\ sched = NoSchedule
    /\ SPEED_TEST_CONFIG = DefaultConfig
    /\ config_file = NoFile

\* one test, with the dialog used before, during or after it
NextSettings ==
    \/ executor = 0 /\ start_test
    \/ on_one_ip_finished
    \/ finish_speedtest_ui
    \/ CollectorStart(1)
    \/ CollectorNext(1)
    \/ CollectorShutdown(1)
    \/ \E ip \in IPS : Worker(<<1, ip>>)
    \/ save_config
    \/ reset_to_default

SpecSettings == InitSettings /\ [][NextSettings]_vars

-----------------------------------------------------------------------------
(* One test of two addresses in which creating the socket of a probe can   *)
(* raise OSError: the evaluation of 140.82.112.3 either measures 30 ms or  *)
(* raises, 140.82.112.4 does not answer.                                   *)

FaultNets ==
    { [ip \in IPS |->
         IF ip = "140.82.112.3"
         THEN [tcp |-> {30, OSErrorRaised}, tls |-> {"ok"}, icmp |-> {None}]
         ELSE [tcp |-> {None}, tls |-> {"timeout"}, icmp |-> {None}]] }

InitFault ==
    /\ speed_test_config = SelectConfig
    /\ tester = [r \in Runs |-> SelectConfig]
    /\ net \in FaultNets
    /\ remote_hosts_data = TwoAddresses
    /\ smart_resolved_ips = Resolved
    /\ stop_test = FALSE
    /\ stop_event = FALSE
    /\ ev = [t \in Tasks |-> NoEval]
    /\ collector = [r \in Runs |-> NoCollector]
    /\ executor = 0
    /\ futures = 0
    /\ shut = [r \in Runs |-> FALSE]
    /\ ip_to_domains = <<>>
    /\ test_results = <<>>
    /\ total_ip_tests = 0
    /\ completed_ip_tests = 0
    /\ ui_queue = <<>>
    /\ start_test_btn = TRUE
    /\ pause_test_btn = FALSE
    /\ status_label = "idle"
    /\ written = <<>>
    /\ hosts_file = InitialHosts
    /\ sched = NoSchedule
    /\ SPEED_TEST_CONFIG = DefaultConfig
    /\ config_file = NoFile

SpecFault == InitFault /\ [][NextSelect]_vars

SpecFaultFair == SpecFault /\ Fairness

-----------------------------------------------------------------------------
(* One test of three addresses of github.com answering TCP with median     *)
(* delays of 45, 30 and 200 ms, followed by the write of the best address. *)
(* The verification of each address either succeeds or fails on the        *)
(* certificate; tls.enabled is on or off.                                  *)

ThreeAddresses ==
    << <<"140.82.112.3", "github.com">>, <<"140.82.112.4", "github.com">>,
       <<"199.232.69.194", "github.com">> >>

ScenarioConfigs ==
    { ConfigOf(2, 2000, te, FALSE, 1, TRUE, TRUE, 1, TRUE) : te \in BOOLEAN }

\* 140.82.112.4 answers every probe in 30 ms, or some in 10 and some in
\* 50 ms; the third address answers in 200 ms, or does not answer at all
ScenarioNets ==
    { [ip \in IPS |->
         [tcp |-> CASE ip = "140.82.112.3" -> {45}
                    [] ip = "140.82.112.4" -> second
                    [] OTHER -> {third},
          tls |-> {v[ip]}, icmp |-> {None}]] :
      v \in [IPS -> {"ok", "cert_verify"}], second \in {{30}, {10, 50}},
      third \in {200, None} }

InitScenario ==
    /\ \E cfg \in ScenarioConfigs :
          /\ speed_test_config = cfg
          /\ tester = [r \in Runs |-> cfg]
    /\ net \in ScenarioNets
    /\ remote_hosts_data = ThreeAddresses
    /\ smart_resolved_ips = <<>>
    /\ stop_test = FALSE
    /\ stop_event = FALSE
    /\ ev = [t \in Tasks |-> NoEval]
    /\ collector = [r \in Runs |-> NoCollector]
    /\ executor = 0
    /\ futures = 0
    /\ shut = [r \in Runs |-> FALSE]
    /\ ip_to_domains = <<>>
    /\ test_results = <<>>
    /\ total_ip_tests = 0
    /\ completed_ip_tests = 0
    /\ ui_queue = <<>>
    /\ start_test_btn = TRUE
    /\ pause_test_btn = FALSE
    /\ status_label = "idle"
    /\ written = <<>>
    /\ hosts_file = InitialHosts
    /\ sched = NoSchedule
    /\ SPEED_TEST_CONFIG = DefaultConfig
    /\ config_file = NoFile

SpecScenario == InitScenario /\ [][NextSelect]_vars

-----------------------------------------------------------------------------
(* Properties of one evaluation (specification SpecEval)                   *)

\* C1: with retries enabled and max_retries = n, an evaluation in which every
\* attempt failed and no cancellation occurred ends after exactly n + 1
\* attempts with status failed, delay 9999, metadata.attempts = n + 1 and
\* metadata.retry_count = n.
C1_RetryBound ==
    LET e == ev[EvalTask]
        cfg == tester[1]
    IN (/\ e.pc = "finished"
        /\ cfg.retry_enabled
        /\ ~should_stop
        /\ Len(e.errors) = e.attempts
        /\ \A j \in 1..Len(e.errors) : e.errors[j] = "failed")
       => (/\ e.status = "failed_retries"
           /\ e.delay = SENTINEL_MS
           /\ e.attempts = cfg.max_retries + 1
           /\ e.retry_count = cfg.max_retries)

\* C2: an evaluation that observed the cancellation signal (one of its
\* _should_stop() checks returned true) ends with status stopped, never with
\* an available status and never with failed.
C2_CancelledIsStopped ==
    LET e == ev[EvalTask]
    IN (e.pc = "finished" /\ e.saw_stop) => e.status = "stopped"

\* C5: the rank key of a failed or stopped row (delay 9999, no jitter, no
\* stability) is strictly greater than the rank key of the row built from any
\* evaluation that ended with an available status.
SentinelRow == <<EvalTask[2], "github.com", SENTINEL_MS, "failed_retries", FALSE, 0, 0>>

C5_SentinelSortsLast ==
    LET e == ev[EvalTask]
        row == ResultRows(EvalTask[2], <<"github.com">>, e.delay, e.status,
                          e.metrics)[1]
    IN (e.pc = "finished" /\ IsAvailable(e.status))
       => KeyLess(rank_key_for_result_row(row), rank_key_for_result_row(SentinelRow))

-----------------------------------------------------------------------------
(* Properties of the selection (specification SpecSelect)                  *)

Range(q) == {q[j] : j \in 1..Len(q)}

\* the selection map of write_best_ip_to_hosts: domain -> address
SelectionMap(rows) == {<<rec[2], rec[1]>> : rec \in Range(BestRecords(rows))}

\* the orders in which the same per-IP results can arrive: the rows of one
\* address stay together, the addresses come in any order
CompletionOrders(rows) ==
    LET n == Len(rows)
        reordered == {[j \in 1..n |-> rows[p[j]]] : p \in Permutations(1..n)}
    IN {q \in reordered :
          \A a, b, c \in 1..n : (a < b /\ b < c /\ q[a][1] = q[c][1]) => q[b][1] = q[a][1]}

\* C3: the selection map is the same for every order in which the per-IP
\* evaluations complete, equal rank keys included.
C3_SelectionOrderIndependent ==
    \A q \in CompletionOrders(test_results) :
        SelectionMap(q) = SelectionMap(test_results)

\* rows of domain d that passed the TLS check
TlsRows(rows, d) == {row \in Range(rows) : row[2] = d /\ row[4] = "available_tls"}

\* C4: every record write_best_ip_to_hosts hands to _do_write names, for a
\* domain with a TLS-verified row, a TLS-verified row of smallest rank key,
\* whatever the unverified rows of the domain measure; an unverified available
\* row is written only for a domain without TLS-verified row; and every
\* domain with an available row gets a record.
TlsPreference(rows, records) ==
    /\ \A rec \in Range(records) :
         LET tls == TlsRows(rows, rec[2])
         IN IF tls # {}
            THEN \E row \in tls :
                   /\ row[1] = rec[1]
                   /\ \A other \in tls :
                        ~KeyLess(rank_key_for_result_row(other),
                                 rank_key_for_result_row(row))
            ELSE \E row \in Range(rows) :
                   row[1] = rec[1] /\ row[2] = rec[2] /\ IsAvailable(row[4])
    /\ \A row \in Range(rows) :
         IsAvailable(row[4]) =>
            Cardinality({j \in 1..Len(records) : records[j][2] = row[2]}) = 1

-----------------------------------------------------------------------------
(* Properties of the orchestration (specifications Spec and SpecFair)      *)

\* C6: the progress counter stays within 0 .. total_ip_tests.
C6_ProgressBounded ==
    0 <= completed_ip_tests /\ completed_ip_tests <= total_ip_tests

\* an evaluation is running in a pool worker
Running(t) == ev[t].pc \in {"attempt", "tcp", "tls", "icmp", "backoff"}

\* runs of which a worker evaluation or the collector thread is still active
ActiveRuns ==
    {r \in Runs : \/ collector[r].pc \in {"start", "wait", "shutdown"}
                  \/ \E ip \in IPS : Running(<<r, ip>>)}

\* C7: at most one run is active: once start_test has begun a run, no worker
\* evaluation and no collector thread of an earlier run is active.
C7_SingleActiveRun == Cardinality(ActiveRuns) <= 1

\* C8: after a cancellation request the collector of the run leaves its loop.
C8_PauseFinalizes ==
    \A r \in Runs :
        (should_stop /\ collector[r].pc \in {"start", "wait"})
            ~> (collector[r].pc \in {"shutdown", "done"})

\* C9: when the first run has been finalized as stopped, every result its
\* collector took from a completed evaluation is in test_results, one row per
\* domain of the address, and is counted.
C9_ReceivedResultsKept ==
    (executor = 1 /\ status_label = "stopped" /\ collector[1].pc = "done"
        /\ ui_queue = <<>>)
    => /\ \A ip \in collector[1].seen :
            \A j \in 1..Len(DictGet(ip_to_domains, ip, <<"">>)) :
               \E row \in Range(test_results) :
                  row[1] = ip /\ row[2] = DictGet(ip_to_domains, ip, <<"">>)[j]
       /\ completed_ip_tests = Cardinality(collector[1].seen)

\* the de-duplicated (ip, domain) pairs of the current run
CandidatePairs ==
    UNION { {<<ip_to_domains[j].ip, ip_to_domains[j].doms[k]>> :
                k \in 1..Len(ip_to_domains[j].doms)} : j \in 1..Len(ip_to_domains) }

\* C10: when the last run has finished without cancellation, the counter
\* equals the total and test_results holds exactly one row per de-duplicated
\* (ip, domain) pair, the rows of one address differing in the domain only.
C10_CompleteResultSet ==
    (executor = MaxRuns /\ ~should_stop /\ collector[executor].pc = "done"
        /\ collector[executor].fs = executor /\ ui_queue = <<>>)
    => /\ completed_ip_tests = total_ip_tests
       /\ {<<row[1], row[2]>> : row \in Range(test_results)} = CandidatePairs
       /\ Len(test_results) = Cardinality(CandidatePairs)
       /\ \A a, b \in Range(test_results) :
            a[1] = b[1] => [a EXCEPT ![2] = b[2]] = b

-----------------------------------------------------------------------------
(* Properties of the submission (specification SpecSelect)                 *)

\* the distinct (ip, domain) pairs of the loaded data, blanks stripped
InputPairs ==
    LET raw == remote_hosts_data \o smart_resolved_ips
    IN {<<Strip(raw[j][1]), Strip(raw[j][2])>> : j \in 1..Len(raw)}

\* C11: once start_test has run, there is exactly one entry of the
\* IP-to-domains map, hence one submitted evaluation, per distinct address of
\* the de-duplicated pairs, and the entry of an address lists each of its
\* candidate domains exactly once.
C11_OneEvaluationPerAddress ==
    executor >= 1 =>
        LET ips == {pair[1] : pair \in InputPairs}
        IN /\ Len(ip_to_domains) = Cardinality(ips)
           /\ Keys(ip_to_domains) = ips
           /\ total_ip_tests = Cardinality(ips)
           /\ FuturesOf(executor) = ips
           /\ \A j \in 1..Len(ip_to_domains) :
                LET doms == ip_to_domains[j].doms
                IN /\ Range(doms) = {pair[2] : pair \in
                                        {q \in InputPairs : q[1] = ip_to_domains[j].ip}}
                   /\ Len(doms) = Cardinality(Range(doms))

\* C11 witness: a test was started from data in which an address has two
\* domains and a pair is repeated
C11_Witness ==
    /\ executor = 1
    /\ Len(remote_hosts_data \o smart_resolved_ips) > Cardinality(InputPairs)
    /\ \E j \in 1..Len(ip_to_domains) : Len(ip_to_domains[j].doms) = 2
    /\ \A ip \in FuturesOf(1) : ev[<<1, ip>>].pc = "pending"

-----------------------------------------------------------------------------
(* Properties of the verification policy (specification SpecEval)          *)

\* in the current attempt every hostname to try was tried and every handshake failed
AllTriedFailed(e, cfg) ==
    /\ e.tried # <<>>
    /\ Len(e.tried) = Len(TriedHosts(e.cands, cfg.try_hosts_limit))
    /\ \A j \in 1..Len(e.tried) : e.tried[j].r # "ok"

\* C12: with tls.strict off, an attempt whose TCP sampling succeeded and whose
\* handshakes all failed ends the evaluation at once: status
\* available_tcp_tls_failed, the delay is the measured TCP delay and not the
\* sentinel, no retry is counted for it and no backoff wait is entered.
C12_LenientKeepsAddress ==
    LET e == ev[EvalTask]
        cfg == tester[1]
    IN (~cfg.tls_strict /\ AllTriedFailed(e, cfg))
       => /\ e.pc = "finished"
          /\ e.status = "available_tcp_tls_failed"
          /\ e.lat # <<>>
          /\ e.delay = Max(1, Median2(e.lat) \div 2)
          /\ e.delay # SENTINEL_MS
          /\ e.wait = 0
          /\ e.attempts = Len(e.errors) + 1
          /\ e.retry_count = Len(e.errors)
          /\ \A j \in 1..Len(e.errors) : e.errors[j] = "failed"

\* C12 witness: a first attempt measured a delay and both handshakes failed
C12_Witness ==
    LET e == ev[EvalTask]
        cfg == tester[1]
    IN /\ ~cfg.tls_strict /\ cfg.retry_enabled /\ cfg.max_retries > 0
       /\ AllTriedFailed(e, cfg) /\ Len(e.tried) = 2
       /\ e.pc = "finished" /\ e.attempts = 1 /\ e.delay = 31

\* C13: with tls.strict on, an attempt whose TCP sampling succeeded and whose
\* handshakes all failed is a failed attempt (SNI failure, delay 9999): it is
\* recorded as an error, it is followed by a backoff and a retry while
\* retries are left, and after max_retries + 1 attempts the evaluation ends
\* with status failed and delay 9999.
C13_StrictFailsAndRetries ==
    LET e == ev[EvalTask]
        cfg == tester[1]
    IN (cfg.tls_strict /\ AllTriedFailed(e, cfg))
       => /\ e.pc \in {"backoff", "attempt", "finished"}
          /\ e.errors # <<>>
          /\ e.errors[Len(e.errors)] = "failed_sni"
          /\ e.retry_count = Len(e.errors)
          /\ (e.pc = "finished") <=> (e.attempts = max_retries_of(cfg) + 1)
          /\ e.pc = "finished" =>
                /\ e.status = "failed_retries"
                /\ e.delay = SENTINEL_MS
                /\ e.attempts = max_retries_of(cfg) + 1

\* C13 witness: verification failed on each of three attempts
C13_Witness ==
    LET e == ev[EvalTask]
        cfg == tester[1]
    IN /\ cfg.tls_strict /\ AllTriedFailed(e, cfg)
       /\ e.pc = "finished" /\ e.attempts = 3
       /\ \A j \in 1..Len(e.errors) : e.errors[j] = "failed_sni"

-----------------------------------------------------------------------------
(* Properties of the sampling and of the waits (specification SpecEval)    *)

\* C14: when the sampling loop of tcp_advanced_metrics was cut by the stop
\* signal after k of the n configured probes (0 < k < n), the metrics it
\* returned are those of the k probes issued: sample_count, median and jitter
\* of the successful ones, packet loss as the share of the k that failed.
C14_PartialSampleMetrics ==
    LET e == ev[EvalTask]
        cfg == tester[1]
        k == e.i
    IN (/\ cfg.measure_jitter
        /\ 0 < k /\ k < cfg.attempts
        /\ e.lat # <<>>
        /\ \/ e.pc = "tls"
           \/ /\ e.pc = "finished"
              /\ e.status \in {"available", "available_tls", "available_tcp_tls_failed"})
       => /\ Len(e.lat) <= k
          /\ e.metrics.sample_count = Len(e.lat)
          /\ e.metrics.median2 = Median2(e.lat)
          /\ e.metrics.jitter = (IF Len(e.lat) > 1 THEN Stdev(e.lat) ELSE 0)
          /\ e.metrics.packet_loss = ((k - Len(e.lat)) * 10000) \div k

\* C15: while the stop signal is set, no time of a backoff wait passes for a
\* waiting evaluation (the wait is cut short), and an evaluation that leaves
\* a backoff wait under the stop signal issues no further probe.
C15_BackoffCutShort ==
    [][LET e == ev[EvalTask]
       IN (should_stop /\ e.pc = "backoff")
          => /\ ~(ev'[EvalTask].pc = "backoff" /\ ev'[EvalTask].wait < e.wait)
             /\ ev'[EvalTask].pc # "tcp"]_vars

\* C16: icmp_ping_once is invoked only when the TCP sampling of the attempt
\* had no successful probe, the ICMP fallback is enabled and no cancellation
\* is observed; it is never invoked after a TCP success and at most once in
\* one attempt.
C16_IcmpOnlyAfterTcpFailure ==
    [][LET e == ev[EvalTask]
       IN ev'[EvalTask].pings > e.pings
          => /\ e.pc = "icmp"
             /\ e.lat = <<>>
             /\ tester[1].icmp_enabled
             /\ ~should_stop
             /\ e.pings = 0
             /\ ev'[EvalTask].pings = 1]_vars

\* an attempt whose probes all failed has pinged the address once
C16_Witness ==
    LET e == ev[EvalTask]
    IN /\ e.pings = 1 /\ e.lat = <<>> /\ e.i = ProbeCount(tester[1])
       /\ e.pc = "finished" /\ e.status = "available_icmp"

\* C17: every (ip, domain) pair handed to the hosts writer is a row of
\* test_results with that ip, that domain and an available status (so never a
\* failed or stopped row); each domain appears at most once; every domain
\* with at least one available row appears.
C17_SelectionFromAvailableRows ==
    [][written' # written
       => LET recs == written'
              rows == Range(test_results)
          IN /\ \A j \in 1..Len(recs) :
                   \E row \in rows : /\ row[1] = recs[j][1]
                                     /\ row[2] = recs[j][2]
                                     /\ IsAvailable(row[4])
                                     /\ row[4] \notin FailedStatuses \cup {"stopped"}
             /\ \A j, k \in 1..Len(recs) : recs[j][2] = recs[k][2] => j = k
             /\ \A row \in rows :
                   IsAvailable(row[4]) => \E j \in 1..Len(recs) : recs[j][2] = row[2]]_vars

\* records were written while the results hold a failed row beside available ones
C17_Witness ==
    /\ written # <<>>
    /\ written = BestRecords(test_results)
    /\ \E row \in Range(test_results) : row[4] = "failed_retries"
    /\ \E row \in Range(test_results) : IsAvailable(row[4])

\* C18: tls_sni_verify_any tries the normalized, de-duplicated hosts in their
\* order, makes at most max(1, limit) handshakes and stops at the first one
\* that succeeds, returning (True, that host, None); when every handshake it
\* made failed it returns (False, the last host tried, the last error).
C18_HandshakeOrderAndLimit ==
    LET e == ev[EvalTask]
        cfg == tester[1]
        hs == NormalizedHosts(e.cands, <<>>)
        lim == Max(1, cfg.try_hosts_limit)
        n == Len(e.tried)
    IN /\ n <= lim /\ n <= Len(hs)
       /\ \A j \in 1..n : e.tried[j].h = hs[j]
       /\ \A j \in 1..(n - 1) : e.tried[j].r # "ok"
       /\ e.pc = "tls" => /\ n < lim /\ n < Len(hs)
                          /\ \A j \in 1..n : e.tried[j].r # "ok"
       /\ (n > 0 /\ e.tried[n].r = "ok")
             => /\ e.pc = "finished" /\ e.status = "available_tls"
                /\ e.tls_used_host = hs[n] /\ e.tls_error = "none"
       /\ (n > 0 /\ e.tried[n].r # "ok" /\ (n = lim \/ n = Len(hs)))
             => /\ e.pc # "tls"
                /\ e.tls_used_host = hs[n] /\ e.tls_error = e.tried[n].r

\* the second of two hosts verified after the first one failed
C18_Witness ==
    LET e == ev[EvalTask]
    IN /\ tester[1].try_hosts_limit = 2
       /\ e.cands = <<"GitHub.com", "github.com", "api.github.com">>
       /\ Len(e.tried) = 2
       /\ e.tried[1] = [h |-> "github.com", r |-> "cert_verify"]
       /\ e.tried[2] = [h |-> "api.github.com", r |-> "ok"]
       /\ e.tls_used_host = "api.github.com" /\ e.status = "available_tls"

\* C19: with a candidate list that is empty or whose entries all normalize to
\* the empty string, no handshake is made and the verification reports
\* success with no used host and no error; an address whose TCP sampling
\* succeeded is then reported available with its measured delay, never failed.
C19_NoCandidatesNoHandshake ==
    LET e == ev[EvalTask]
        cfg == tester[1]
    IN (\A j \in 1..Len(e.cands) : normalize_sni_host(e.cands[j]) = "")
       => /\ e.tried = <<>>
          /\ e.pc # "tls"
          /\ e.tls_used_host = "none"
          /\ e.tls_error = "none"
          /\ (e.pc = "finished" /\ e.lat # <<>>)
                => /\ e.status = IF cfg.tls_enabled /\ e.cands # <<>>
                                 THEN "available_tls" ELSE "available"
                   /\ e.delay = Max(1, Median2(e.lat) \div 2)
                   /\ e.errors = <<>> \/ e.errors[Len(e.errors)] = "failed"

\* verification was asked for a blank candidate and the address is available
C19_Witness ==
    LET e == ev[EvalTask]
    IN /\ tester[1].tls_enabled /\ tester[1].tls_strict
       /\ e.cands = <<" ">> /\ e.pc = "finished" /\ e.lat = <<31>>
       /\ e.tried = <<>> /\ e.status = "available_tls" /\ e.delay = 31

-----------------------------------------------------------------------------
(* Properties of the three-address scenario (specification SpecScenario)   *)

\* the available rows of test_results for domain d
AvailableRows(d) ==
    {row \in Range(test_results) : row[2] = d /\ IsAvailable(row[4])}

\* the rows of the three addresses are in, with delays 45, 30 and 200 ms
\* and the statuses given
ScenarioRows(st1, st2, st3) ==
    {<<row[1], row[2], row[3], row[4]>> : row \in Range(test_results)}
       = { <<"140.82.112.3", "github.com", 45, st1>>,
           <<"140.82.112.4", "github.com", 30, st2>>,
           <<"199.232.69.194", "github.com", 200, st3>> }

\* every probe of an address was answered, and in the same time
SteadyDelays ==
    \A ip \in IPS :
       LET lat == ev[<<1, ip>>].lat
       IN /\ Len(lat) = tester[1].attempts
          /\ \A j \in 1..Len(lat) : lat[j] = lat[1]

\* with tls.enabled off no handshake is made for any address, an address
\* whose TCP sampling succeeded is reported available (never available_tls
\* nor available_tcp_tls_failed), and the written address of a domain is an
\* available row with the smallest rank key
TlsDisabledStep ==
    /\ \A t \in Tasks :
         /\ ev'[t].tried = <<>>
         /\ ev'[t].pc # "tls"
         /\ (ev'[t].pc = "finished" /\ ev'[t].lat # <<>>)
               => ev'[t].status = "available"
    /\ \A row \in Range(test_results') :
         row[4] \notin {"available_tls", "available_tcp_tls_failed"}
    /\ written' # written
         => \A j \in 1..Len(written') :
               \E row \in AvailableRows(written'[j][2]) :
                  /\ row[1] = written'[j][1]
                  /\ \A other \in AvailableRows(written'[j][2]) :
                        ~KeyLess(rank_key_for_result_row(other),
                                 rank_key_for_result_row(row))

-----------------------------------------------------------------------------
(* Properties of a test with a raising evaluation (specification           *)
(* SpecFaultFair)                                                          *)

\* the collector has ended and the main loop has run every callback it posted
Finalized == collector[1].pc = "done" /\ ui_queue = <<>> /\ start_test_btn

\* C21: an evaluation that raises does not abort the test: the collector
\* goes on, every other address is evaluated and its rows are stored, the
\* raised evaluation is stored as one failed row with delay 9999, and the
\* test is finalized.
C21_RaisedEvaluationContained ==
    /\ [](Finalized =>
            /\ \A ip \in FuturesOf(1) :
                 LET e == ev[<<1, ip>>]
                 IN /\ e.pc \in {"finished", "raised"}
                    /\ e.pc = "finished" =>
                         \A j \in 1..Len(DictGet(ip_to_domains, ip, <<"">>)) :
                            \E k \in 1..Len(test_results) :
                               /\ test_results[k][1] = ip
                               /\ test_results[k][2] = DictGet(ip_to_domains, ip, <<"">>)[j]
                               /\ test_results[k][3] = e.delay
                               /\ test_results[k][4] = e.status
            /\ Cardinality({k \in 1..Len(test_results) : test_results[k][1] = "?"})
                 = Cardinality({ip \in FuturesOf(1) : ev[<<1, ip>>].pc = "raised"})
            /\ \A k \in 1..Len(test_results) :
                 test_results[k][1] = "?"
                    => /\ test_results[k][3] = SENTINEL_MS
                       /\ test_results[k][4] \in FailedStatuses
            /\ completed_ip_tests = total_ip_tests)
    /\ (collector[1].pc = "start") ~> Finalized

\* the test was finalized with the row of a raised evaluation and the rows
\* of the other address
C21_Witness ==
    /\ Finalized
    /\ ev[<<1, "140.82.112.3">>].pc = "raised"
    /\ \E k \in 1..Len(test_results) : test_results[k][1] = "?"
    /\ \E k \in 1..Len(test_results) : test_results[k][1] = "140.82.112.4"

-----------------------------------------------------------------------------
(* Further properties of one evaluation (specification SpecEval)           *)

\* C22: a returned result with an available status carries a delay >= 1 that
\* was measured (the integer part of the TCP median, or the ICMP time, each
\* raised to 1 when below); a result with a failed or stopped status carries
\* exactly 9999.
C22_DelayMatchesStatus ==
    LET e == ev[EvalTask]
    IN e.pc = "finished"
       => /\ e.status \in AvailableStatuses \cup FailedStatuses \cup {"stopped"}
          /\ e.status \in {"available", "available_tls", "available_tcp_tls_failed"}
                => /\ e.lat # <<>>
                   /\ e.delay = Max(1, Median2(e.lat) \div 2)
                   /\ e.delay >= 1
          /\ e.status = "available_icmp"
                => /\ e.lat = <<>> /\ e.pings = 1
                   /\ e.delay >= 1
                   /\ \E v \in PingReports \ {None} :
                         e.delay = IF v < 1 THEN 1 ELSE v
          /\ e.status \in FailedStatuses \cup {"stopped"}
                => e.delay = SENTINEL_MS

\* a ping reported below 1 ms made the address available with delay 1
C22_Witness ==
    LET e == ev[EvalTask]
    IN /\ e.pc = "finished" /\ e.status = "available_icmp" /\ e.delay = 1
       /\ e.attempts = 2

\* C26: when no TCP probe of the attempt succeeded and the ping reports a
\* time v, the evaluation returns at once with status available_icmp and
\* delay max(1, v): the attempt counts as a success, no error and no retry
\* is recorded for it and no backoff is entered.
C26_IcmpFallbackResult ==
    LET e == ev[EvalTask]
    IN (e.pings = 1 /\ e.report # None)
       => /\ e.pc = "finished"
          /\ e.status = "available_icmp"
          /\ e.delay = (IF e.report < 1 THEN 1 ELSE e.report)
          /\ e.lat = <<>> /\ e.i = ProbeCount(tester[1])
          /\ e.wait = 0
          /\ e.attempts = Len(e.errors) + 1
          /\ e.retry_count = Len(e.errors)

\* a first attempt of two failed probes was answered by a ping of 80 ms,
\* with retries left
C26_Witness ==
    LET e == ev[EvalTask]
    IN /\ e.report = 80 /\ e.delay = 80 /\ e.status = "available_icmp"
       /\ e.attempts = 1 /\ e.i = 2
       /\ tester[1].retry_enabled /\ tester[1].max_retries = 2

\* amounts by which a median (ms), a jitter (ms) or a loss (percent) grows
Increases == {1, 7, 100, 1000}

\* C27: the stability score of the samples of an attempt lies in [0, 100]
\* and is min(100, max(0, 50 - median/10) + max(0, 30 - jitter/3.33)
\* + max(0, 20 - loss/5)); a larger median, jitter or loss never gives a
\* larger score; with no successful sample the metrics are score 0, no
\* median and loss 100.
C27_StabilityScore ==
    LET e == ev[EvalTask]
        m == e.metrics
        s == m.stability_score
    IN /\ (s # None /\ m.median2 # None)
          => /\ 0 <= s /\ s <= 10000
             /\ s = Min(10000,
                        Max(0, 5000 - (100 * m.median2) \div 20)
                        + Max(0, 3000 - (m.jitter * 10000) \div 333)
                        + Max(0, 2000 - m.packet_loss \div 5))
             /\ \A d \in Increases :
                   /\ calculate_stability_score(m.median2 + 2 * d, m.jitter,
                                                m.packet_loss) <= s
                   /\ calculate_stability_score(m.median2, m.jitter + d,
                                                m.packet_loss) <= s
                   /\ calculate_stability_score(m.median2, m.jitter,
                                                Min(10000, m.packet_loss + 100 * d)) <= s
       /\ (tester[1].measure_jitter /\ e.pc = "icmp")
          => /\ e.lat = <<>>
             /\ s = 0 /\ m.median2 = None /\ m.packet_loss = 10000

\* samples with a median above 500 ms and one lost probe were scored
C27_Witness ==
    LET m == ev[EvalTask].metrics
    IN /\ m.stability_score # None /\ m.median2 = 24000
       /\ m.packet_loss = 5000 /\ m.stability_score = 4000

-----------------------------------------------------------------------------
(* Properties of the settings dialog (specification SpecSettings)          *)

\* the option values of a configuration
Options(cfg) ==
    <<cfg.attempts, cfg.timeout_ms, cfg.tls_enabled, cfg.tls_strict,
      cfg.try_hosts_limit, cfg.icmp_enabled, cfg.retry_enabled, cfg.max_retries,
      cfg.measure_jitter>>

-----------------------------------------------------------------------------
(* Further properties of the selection (specification SpecSelect)          *)

\* the score of a row as the ranking rule states it, in hundredths: the
\* delay, plus 1.5 times the jitter and 2 times (100 - stability) where the
\* evaluation measured them, minus 15 for a TLS-verified status only
StatedScore(row) ==
    LET m == ev[<<1, row[1]>>].metrics
    IN 100 * row[3]
       + (IF m.jitter # None THEN 150 * m.jitter ELSE 0)
       + (IF m.stability_score # None THEN 2 * (10000 - m.stability_score) ELSE 0)
       - (IF row[4] = "available_tls" THEN 1500 ELSE 0)

C28_EmptySelectionWritesNothing ==
    [][(\A row \in Range(test_results) : ~IsAvailable(row[4]))
       => /\ BestRecords(test_results) = <<>>
          /\ written' = written
          /\ status_label' = "hosts_updated" => status_label = "hosts_updated"]_vars

\* the test is over, every row is a failed row and nothing was written
C28_Witness ==
    /\ status_label = "done"
    /\ Len(test_results) = 3
    /\ \A row \in Range(test_results) : row[4] = "failed_retries"
    /\ BestRecords(test_results) = <<>>
    /\ written = <<>>
    /\ hosts_file = InitialHosts

-----------------------------------------------------------------------------
(* Further properties of the three-address scenario (specification         *)
(* SpecScenario)                                                           *)

\* verification is on and not strict, it succeeds for 140.82.112.3 and
\* 140.82.112.4 and fails for 199.232.69.194, which answers TCP
VerifiedScenario ==
    /\ speed_test_config.tls_enabled /\ ~speed_test_config.tls_strict
    /\ net["140.82.112.3"].tls = {"ok"}
    /\ net["140.82.112.4"].tls = {"ok"}
    /\ net["199.232.69.194"].tls = {"cert_verify"}
    /\ net["199.232.69.194"].tcp = {200}

\* in the scenario with verification the rows of 140.82.112.3 and
\* 140.82.112.4 are available_tls and the row of 199.232.69.194 is
\* available_tcp_tls_failed
VerifiedStatuses ==
    \A row \in Range(test_results') :
       row[4] = IF row[1] = "199.232.69.194" THEN "available_tcp_tls_failed"
                ELSE "available_tls"

\* C25: in the scenario with verification the statuses are VerifiedStatuses,
\* and from the rows of the three addresses with median delays 45, 30 and
\* 200 ms the address written for github.com is 140.82.112.4.
C25_VerifiedScenarioSelection ==
    [][VerifiedScenario
       => /\ VerifiedStatuses
          /\ (written' # written
                 /\ ScenarioRows("available_tls", "available_tls",
                                 "available_tcp_tls_failed"))
               => written' = << <<"140.82.112.4", "github.com">> >>]_vars

\* C25 with steady delays: the same, for addresses that answered every
\* probe in 45, 30 and 200 ms.
C25_VerifiedSteadySelection ==
    [][VerifiedScenario
       => /\ VerifiedStatuses
          /\ (written' # written /\ SteadyDelays
                 /\ ScenarioRows("available_tls", "available_tls",
                                 "available_tcp_tls_failed"))
               => written' = << <<"140.82.112.4", "github.com">> >>]_vars

\* the three steady rows are in with the three statuses and 140.82.112.4 is
\* written
C25_Witness ==
    /\ VerifiedScenario
    /\ SteadyDelays
    /\ ScenarioRows("available_tls", "available_tls", "available_tcp_tls_failed")
    /\ written = << <<"140.82.112.4", "github.com">> >>

-----------------------------------------------------------------------------
(* Further properties of the orchestration (specification Spec)            *)

\* C29: results of an earlier run never enter a later run: every row of
\* test_results is the result of a finished evaluation of the current run,
\* and completed_ip_tests counts finished evaluations of the current run only.
C29_NoLeakBetweenRuns ==
    /\ \A row \in Range(test_results) :
          LET e == ev[<<executor, row[1]>>]
          IN e.pc = "finished" /\ row[3] = e.delay /\ row[4] = e.status
    /\ completed_ip_tests
          <= Cardinality({ip \in IPS : executor > 0
                                        /\ ev[<<executor, ip>>].pc = "finished"})

\* the steps of one collector's finally clause and of a finalizing callback
CollectorShutsDown(r) == collector[r].pc = "shutdown" /\ collector'[r].pc = "done"

FinishCallbackRuns ==
    /\ ui_queue # <<>>
    /\ Head(ui_queue).kind = "finish"
    /\ ui_queue' = Tail(ui_queue)

\* C30: a run is finalized only by its own collector: the shutdown made by
\* the collector of run r neither shuts the executor of a later run nor
\* cancels its queued evaluations, and the UI is finalized only when the
\* collector of the current run has left its loop and posted the callback.
C30_FinalizedByOwnCollector ==
    [][/\ \A r \in Runs : \A r2 \in Runs :
             (CollectorShutsDown(r) /\ r2 > r)
                => /\ shut'[r2] = shut[r2]
                   /\ \A ip \in IPS : ev'[<<r2, ip>>] = ev[<<r2, ip>>]
       /\ FinishCallbackRuns => collector[executor].pc \in {"shutdown", "done"}]_vars

\* one test that the pause button may interrupt at any moment, then the write
NextCancel ==
    \/ NextSelect
    \/ pause_test

SpecCancel == InitSelect /\ [][NextCancel]_vars

-----------------------------------------------------------------------------
(* Further properties of one evaluation (specification SpecEval)           *)

\* the accounting of attempts and errors in a state of test_with_retry
RetryAccounts ==
    LET e == ev[EvalTask]
        cfg == tester[EvalTask[1]]
        limit == (IF cfg.retry_enabled THEN cfg.max_retries ELSE 0) + 1
    IN /\ e.attempts <= limit
       /\ ~cfg.retry_enabled => e.attempts <= 1
       /\ Len(e.errors) = e.retry_count
       /\ e.pc \in {"tcp", "tls", "icmp"} => Len(e.errors) = e.attempts - 1
       /\ e.pc \in {"attempt", "backoff"}
             => Len(e.errors) = e.attempts /\ e.attempts < limit
       /\ (e.pc = "finished" /\ (IsAvailable(e.status) \/ e.status = "stopped"))
             => Len(e.errors) = e.attempts - 1
       /\ (e.pc = "finished" /\ ~IsAvailable(e.status) /\ e.status # "stopped")
             => /\ e.status = "failed_retries"
                /\ e.attempts = limit
                /\ Len(e.errors) = limit

\* a success returns in the step that finds it; nothing follows a return
ReturnsAtOnce ==
    LET e == ev[EvalTask]
    IN /\ e.pc = "finished" => ev' = ev
       /\ (e.pc # "finished" /\ IsAvailable(ev'[EvalTask].status))
             => /\ ev'[EvalTask].pc = "finished"
                /\ ev'[EvalTask].attempts = e.attempts
                /\ ev'[EvalTask].errors = e.errors

\* C32: in every state of test_with_retry attempts <= max_retries + 1 (one
\* attempt when retry.enabled is false); errors holds one entry per failed
\* attempt and the evaluation ends on a failure only when the attempts are
\* used up; a successful k-th attempt returns at once with attempts = k,
\* after which no attempt and no backoff wait is made.
C32_RetryAccounting == []RetryAccounts /\ [][ReturnsAtOnce]_vars

\* the second attempt succeeded after a failed first one
C32_Witness ==
    LET e == ev[EvalTask]
    IN /\ e.pc = "finished"
       /\ IsAvailable(e.status)
       /\ e.attempts = 2
       /\ Len(e.errors) = 1
       /\ tester[EvalTask[1]].max_retries = 2

\* the evaluation is entered (first turn of the retry loop) with the stop
\* signal already set
EnteredAfterStop ==
    /\ ev[EvalTask].pc = "attempt"
    /\ ev[EvalTask].attempts = 0
    /\ stop_event \/ stop_test
    /\ ev'[EvalTask] # ev[EvalTask]

\* C33: an evaluation entered with the stop signal set returns stopped with
\* delay 9999, having made no TCP probe, no handshake and no ping, after one
\* attempt and with no retry counted.
C33_StoppedAtEntry ==
    [][EnteredAfterStop
         => LET e == ev'[EvalTask]
            IN /\ e.pc = "finished"
               /\ e.status = "stopped"
               /\ e.delay = SENTINEL_MS
               /\ e.i = 0 /\ e.lat = <<>>
               /\ e.tried = <<>>
               /\ e.pings = 0
               /\ e.attempts = 1
               /\ e.retry_count = 0
               /\ e.errors = <<>>]_vars

C33_Witness ==
    LET e == ev[EvalTask]
    IN /\ stop_event \/ stop_test
       /\ e.pc = "finished"
       /\ e.status = "stopped"
       /\ e.delay = SENTINEL_MS
       /\ e.attempts = 1
       /\ e.i = 0
       /\ tester[EvalTask[1]].retry_enabled
       /\ tester[EvalTask[1]].max_retries = 2

-----------------------------------------------------------------------------
(* Candidate hostnames: start_test builds, for the one address of the      *)
(* loaded data, the candidate list from the domains of that address.       *)

\* longest list of domains loaded for the address
MaxDomains == 3

\* domains as the loaded data may spell them: a repeat in another case, a
\* blank, a domain that is not a preferred host
DomainChoices ==
    {"github.com", "GitHub.com", "api.github.com", "gist.github.com", " "}

\* the lists of at most n domains
DomainLists(n) == UNION {[1..k -> DomainChoices] : k \in 0..n}

\* tls.try_hosts_limit as the settings dialog accepts it (1..20)
LimitChoices == 1..3

InitCandidates ==
    /\ \E lim \in LimitChoices :
          /\ speed_test_config = ConfigOf(1, 2000, TRUE, FALSE, lim, TRUE, TRUE, 1, TRUE)
          /\ tester = [r \in Runs |-> speed_test_config]
    /\ net \in OrchNets
    /\ \E doms \in DomainLists(MaxDomains) :
          remote_hosts_data = [j \in 1..Len(doms) |-> <<"140.82.112.3", doms[j]>>]
    /\ smart_resolved_ips = <<>>
    /\ stop_test = FALSE
    /\ stop_event = FALSE
    /\ ev = [t \in Tasks |-> NoEval]
    /\ collector = [r \in Runs |-> NoCollector]
    /\ executor = 0
    /\ futures = 0
    /\ shut = [r \in Runs |-> FALSE]
    /\ ip_to_domains = <<>>
    /\ test_results = <<>>
    /\ total_ip_tests = 0
    /\ completed_ip_tests = 0
    /\ ui_queue = <<>>
    /\ start_test_btn = TRUE
    /\ pause_test_btn = FALSE
    /\ status_label = "idle"
    /\ written = <<>>
    /\ hosts_file = InitialHosts
    /\ sched = NoSchedule
    /\ SPEED_TEST_CONFIG = DefaultConfig
    /\ config_file = NoFile

\* the start button is pressed once
NextCandidates == executor = 0 /\ start_test

SpecCandidates == InitCandidates /\ [][NextCandidates]_vars

\* preferred lists the configuration file may hold
PreferredChoices ==
    { PREFERRED_HOSTS, <<>>, <<"api.github.com", "GitHub.com">>,
      <<"gist.github.com", "api.github.com", "gist.github.com">> }

\* x is listed in the preferred hosts, compared as the code compares
IsPreferred(x, pref) == \E p \in 1..Len(pref) : Lower(Strip(pref[p])) = Lower(x)

\* first position of x in the preferred hosts, in the domains
PreferredRank(x, pref) ==
    CHOOSE p \in 1..Len(pref) :
        /\ Lower(Strip(pref[p])) = Lower(x)
        /\ \A q \in 1..(p - 1) : Lower(Strip(pref[q])) # Lower(x)

DomainRank(x, domains) ==
    CHOOSE p \in 1..Len(domains) :
        /\ Strip(domains[p]) = x
        /\ \A q \in 1..(p - 1) : Strip(domains[q]) # x

\* what is stated of the candidate list out built from domains
CandidateProps(domains, pref, lim, out) ==
    /\ \A i, j \in 1..Len(out) : i < j => Lower(out[i]) # Lower(out[j])
    /\ Len(out) <= Max(1, lim)
    /\ \A i \in 1..Len(out) : \E j \in 1..Len(domains) : out[i] = Strip(domains[j])
    /\ \A i, j \in 1..Len(out) :
          i < j =>
            /\ IsPreferred(out[j], pref) => IsPreferred(out[i], pref)
            /\ (IsPreferred(out[i], pref) /\ IsPreferred(out[j], pref))
                  => PreferredRank(out[i], pref) < PreferredRank(out[j], pref)
            /\ (~IsPreferred(out[i], pref) /\ ~IsPreferred(out[j], pref))
                  => DomainRank(out[i], domains) < DomainRank(out[j], domains)
    /\ out = <<>> <=> \A j \in 1..Len(domains) : Strip(domains[j]) = ""

\* C34: build_sni_candidates returns a list without case-insensitive
\* repeats, of at most max(1, try_hosts_limit) hostnames, all domains of the
\* address, the preferred ones first in the order of preferred_hosts and the
\* others after them in their original order; it is empty only when the
\* address has no non-blank domain.
C34_CandidateList ==
    /\ \A pref \in PreferredChoices : \A lim \in LimitChoices \cup {0, -1} :
          LET doms == [j \in 1..Len(remote_hosts_data) |-> remote_hosts_data[j][2]]
          IN CandidateProps(doms, pref, lim, build_sni_candidates(doms, pref, lim))
    /\ executor = 1
          => CandidateProps(DictGet(ip_to_domains, "140.82.112.3", <<>>),
                            PREFERRED_HOSTS, speed_test_config.try_hosts_limit,
                            ev[<<1, "140.82.112.3">>].cands)

\* the preferred domain was loaded last and is tried first
C34_Witness ==
    /\ executor = 1
    /\ DictGet(ip_to_domains, "140.82.112.3", <<>>)
          = <<"gist.github.com", "GitHub.com", "api.github.com">>
    /\ ev[<<1, "140.82.112.3">>].cands = <<"GitHub.com", "api.github.com">>

-----------------------------------------------------------------------------
(* Scheduled tests: the settings window of the scheduler, its timer, the   *)
(* fetch/resolve thread a scheduled test starts and the test it runs.      *)

\* a callback posted with master.after(0, self._start_scheduled_speed_test)
StartScheduledCallback == [FinishCallback EXCEPT !.kind = "start_scheduled"]

\* HostsOptimizer._run_scheduled_test on the scheduler fields s, lines 417-444
run_scheduled_test(s) ==
    IF ~s.has_domains
    THEN /\ sched' = schedule_next_test(s)
         /\ UNCHANGED <<remote_hosts_data, smart_resolved_ips>>
    ELSE /\ sched' = [s EXCEPT !.threads = @ + 1]
         /\ remote_hosts_data' = <<>>
         /\ smart_resolved_ips' = <<>>

\* the scheduled tests begun so far: threads alive, starts posted, tests started
ScheduledTests ==
    sched.threads + executor
      + Cardinality({j \in 1..Len(ui_queue) : ui_queue[j].kind = "start_scheduled"})

\* save_settings of show_scheduled_test_settings, lines 674-717; the
\* auto-write box is left as it is
save_settings ==
    /\ \E en \in BOOLEAN, dom \in BOOLEAN :
          /\ en => dom
          /\ LET s == [sched EXCEPT !.enabled = en, !.has_domains = dom]
             IN IF en /\ ~sched.enabled
                THEN /\ sched' = start_scheduled_test(s)
                     /\ status_label' = IF s.after_id # 0 THEN status_label
                                        ELSE "scheduled"
                ELSE IF ~en /\ sched.enabled
                THEN /\ sched' = stop_scheduled_test(s)
                     /\ status_label' = status_label
                ELSE IF en
                THEN /\ sched' = start_scheduled_test(stop_scheduled_test(s))
                     /\ status_label' = "scheduled"
                ELSE /\ sched' = s
                     /\ status_label' = status_label
    /\ TimerRoom
    /\ UNCHANGED <<speed_test_config, tester, stop_test, stop_event, ev, collector,
                   executor, futures, shut, ip_to_domains, test_results,
                   total_ip_tests, completed_ip_tests, ui_queue, start_test_btn,
                   pause_test_btn, written, hosts_file, net, SPEED_TEST_CONFIG, config_file, remote_hosts_data,
                   smart_resolved_ips>>

\* run_now of show_scheduled_test_settings, lines 723-733
run_now ==
    /\ ScheduledTests < MaxScheduledTests
    /\ run_scheduled_test([sched EXCEPT !.has_domains = TRUE])
    /\ TimerRoom
    /\ UNCHANGED <<speed_test_config, tester, stop_test, stop_event, ev, collector,
                   executor, futures, shut, ip_to_domains, test_results,
                   total_ip_tests, completed_ip_tests, ui_queue, start_test_btn,
                   pause_test_btn, status_label, written, hosts_file, net, SPEED_TEST_CONFIG, config_file>>

\* a timer of the scheduler fires: Tk forgets it and calls _run_scheduled_test
TimerFires ==
    /\ ScheduledTests < MaxScheduledTests
    /\ \E id \in sched.timers :
          run_scheduled_test([sched EXCEPT !.timers = @ \ {id}])
    /\ TimerRoom
    /\ UNCHANGED <<speed_test_config, tester, stop_test, stop_event, ev, collector,
                   executor, futures, shut, ip_to_domains, test_results,
                   total_ip_tests, completed_ip_tests, ui_queue, start_test_btn,
                   pause_test_btn, status_label, written, hosts_file, net, SPEED_TEST_CONFIG, config_file>>

\* the thread running _scheduled_fetch_and_test / _scheduled_resolve_and_test,
\* lines 452-486: the records fetched (none when the fetch fails), then
\* _start_scheduled_speed_test is posted, or resolving raises and
\* _schedule_next_test is called
ScheduledThread ==
    /\ sched.threads > 0
    /\ \E records \in {<<>>, OneAddress} :
          remote_hosts_data' = IF records = <<>> THEN remote_hosts_data ELSE records
    /\ UNCHANGED smart_resolved_ips
    /\ \E raised \in BOOLEAN :
          IF raised
          THEN /\ sched' = schedule_next_test([sched EXCEPT !.threads = @ - 1])
               /\ ui_queue' = ui_queue
          ELSE /\ sched' = [sched EXCEPT !.threads = @ - 1]
               /\ ui_queue' = Append(ui_queue, StartScheduledCallback)
    /\ TimerRoom
    /\ UNCHANGED <<speed_test_config, tester, stop_test, stop_event, ev, collector,
                   executor, futures, shut, ip_to_domains, test_results,
                   total_ip_tests, completed_ip_tests, start_test_btn,
                   pause_test_btn, status_label, written, hosts_file, net, SPEED_TEST_CONFIG, config_file>>

\* HostsOptimizer._start_scheduled_speed_test, run by the main loop
start_scheduled_speed_test ==
    /\ ui_queue # <<>>
    /\ Head(ui_queue).kind = "start_scheduled"
    /\ ui_queue' = Tail(ui_queue)
    /\ IF remote_hosts_data # <<>> \/ smart_resolved_ips # <<>>
       THEN /\ sched' = [sched EXCEPT !.running = TRUE]
            /\ start_test_call
       ELSE /\ sched' = schedule_next_test(sched)
            /\ TimerRoom
            /\ UNCHANGED <<speed_test_config, tester, stop_test, stop_event, ev,
                           collector, executor, futures, shut, ip_to_domains,
                           test_results, total_ip_tests, completed_ip_tests,
                           start_test_btn, pause_test_btn, status_label, written, hosts_file,
                           net, SPEED_TEST_CONFIG, config_file>>
    /\ UNCHANGED <<remote_hosts_data, smart_resolved_ips>>

\* the window as _load_scheduled_test_config leaves it, lines 366-378: no
\* scheduler, or the saved one enabled with its timer
LoadedSchedules ==
    { NoSchedule,
      start_scheduled_test([NoSchedule EXCEPT !.enabled = TRUE, !.has_domains = TRUE]) }

InitSchedule ==
    /\ speed_test_config = OrchConfig
    /\ tester = [r \in Runs |-> OrchConfig]
    /\ net \in OrchNets
    /\ remote_hosts_data = <<>>
    /\ smart_resolved_ips = <<>>
    /\ stop_test = FALSE
    /\ stop_event = FALSE
    /\ ev = [t \in Tasks |-> NoEval]
    /\ collector = [r \in Runs |-> NoCollector]
    /\ executor = 0
    /\ futures = 0
    /\ shut = [r \in Runs |-> FALSE]
    /\ ip_to_domains = <<>>
    /\ test_results = <<>>
    /\ total_ip_tests = 0
    /\ completed_ip_tests = 0
    /\ ui_queue = <<>>
    /\ start_test_btn = TRUE
    /\ pause_test_btn = FALSE
    /\ status_label = "idle"
    /\ written = <<>>
    /\ hosts_file = InitialHosts
    /\ sched \in LoadedSchedules
    /\ SPEED_TEST_CONFIG = DefaultConfig
    /\ config_file = NoFile

NextSchedule ==
    \/ save_settings
    \/ run_now
    \/ TimerFires
    \/ ScheduledThread
    \/ start_scheduled_speed_test
    \/ on_one_ip_finished
    \/ finish_speedtest_ui
    \/ \E r \in Runs : CollectorStart(r)
    \/ \E r \in Runs : CollectorNext(r)
    \/ \E r \in Runs : CollectorShutdown(r)
    \/ \E t \in Tasks : Worker(t)

SpecSchedule == InitSchedule /\ [][NextSchedule]_vars

\* C35: at most one scheduled-test timer is pending at any time, and none
\* while scheduled testing is disabled.
C35_SingleTimer ==
    /\ Cardinality(sched.timers) <= 1
    /\ ~sched.enabled => sched.timers = {}

-----------------------------------------------------------------------------
(* The configuration manager: SpeedTestConfigManager.load_config,          *)
(* save_config and reset_to_default on speedtest_config.json and on the    *)
(* module-level SPEED_TEST_CONFIG.  A file holds every option, as          *)
(* save_config writes it.                                                  *)

\* configurations a file may hold
FileConfigs ==
    { ConfigOf(a, 2000, te, FALSE, 1, TRUE, re, 1, TRUE) :
        a \in 1..MaxAttemptChoice, te \in BOOLEAN, re \in BOOLEAN }

\* SpeedTestConfigManager.load_config, lines 1324-1348: config is
\* SPEED_TEST_CONFIG.copy(), a shallow copy, and config[key].update(value)
\* writes the values of the file into the nested dicts both hold; a file
\* that is absent or cannot be read gives SPEED_TEST_CONFIG.copy()
load_config ==
    /\ \E readable \in BOOLEAN :
          IF config_file # NoFile /\ readable
          THEN /\ SPEED_TEST_CONFIG' = config_file
               /\ speed_test_config' = config_file
               /\ tester' = [r \in Runs |-> ReadThrough(tester[r], config_file)]
          ELSE /\ speed_test_config' = SPEED_TEST_CONFIG
               /\ UNCHANGED <<SPEED_TEST_CONFIG, tester>>
    /\ UNCHANGED <<config_file, stop_test, stop_event, ev, collector, executor,
                   futures, shut, ip_to_domains, test_results, total_ip_tests,
                   completed_ip_tests, ui_queue, start_test_btn, pause_test_btn,
                   status_label, written, hosts_file, net, remote_hosts_data,
                   smart_resolved_ips, sched>>

\* SpeedTestConfigManager.save_config(config), lines 1350-1363
manager_save_config ==
    /\ \E cfg \in FileConfigs, saved \in BOOLEAN :
          config_file' = IF saved THEN FileOf(cfg) ELSE config_file
    /\ UNCHANGED <<speed_test_config, tester, SPEED_TEST_CONFIG, stop_test,
                   stop_event, ev, collector, executor, futures, shut,
                   ip_to_domains, test_results, total_ip_tests,
                   completed_ip_tests, ui_queue, start_test_btn, pause_test_btn,
                   status_label, written, hosts_file, net, remote_hosts_data,
                   smart_resolved_ips, sched>>

\* the program starts with or without a file left by an earlier session
InitConfig ==
    /\ speed_test_config = DefaultConfig
    /\ tester = [r \in Runs |-> DefaultConfig]
    /\ net \in OrchNets
    /\ remote_hosts_data = OneAddress
    /\ smart_resolved_ips = Resolved
    /\ stop_test = FALSE
    /\ stop_event = FALSE
    /\ ev = [t \in Tasks |-> NoEval]
    /\ collector = [r \in Runs |-> NoCollector]
    /\ executor = 0
    /\ futures = 0
    /\ shut = [r \in Runs |-> FALSE]
    /\ ip_to_domains = <<>>
    /\ test_results = <<>>
    /\ total_ip_tests = 0
    /\ completed_ip_tests = 0
    /\ ui_queue = <<>>
    /\ start_test_btn = TRUE
    /\ pause_test_btn = FALSE
    /\ status_label = "idle"
    /\ written = <<>>
    /\ hosts_file = InitialHosts
    /\ sched = NoSchedule
    /\ SPEED_TEST_CONFIG = DefaultConfig
    /\ config_file \in {NoFile} \cup {FileOf(cfg) : cfg \in FileConfigs}

\* the manager called on its own and through the settings dialog
NextConfig ==
    \/ reset_to_default
    \/ load_config
    \/ manager_save_config
    \/ save_config

SpecConfig == InitConfig /\ [][NextConfig]_vars

\* C36: load_config and reset_to_default never modify SPEED_TEST_CONFIG, and
\* after any calls of load_config, save_config and reset_to_default a reset
\* returns and persists the factory default values.
C36_DefaultsUntouched ==
    [][/\ SPEED_TEST_CONFIG' = DefaultConfig
       /\ reset_to_default
            => /\ speed_test_config' = DefaultConfig
               /\ config_file' # config_file => config_file' = FileOf(DefaultConfig)]_vars

-----------------------------------------------------------------------------
(* The write to the hosts file on a file system that can fail anywhere.    *)

\* one address that answers and one that does not
WriteNets ==
    { [ip \in IPS |->
         IF ip = "140.82.112.3"
         THEN [tcp |-> {30}, tls |-> {"ok"}, icmp |-> {None}]
         ELSE [tcp |-> {None}, tls |-> {"timeout"}, icmp |-> {None}]] }

InitWrite ==
    /\ speed_test_config = SelectConfig
    /\ tester = [r \in Runs |-> SelectConfig]
    /\ net \in WriteNets
    /\ remote_hosts_data = TwoAddresses
    /\ smart_resolved_ips = Resolved
    /\ stop_test = FALSE
    /\ stop_event = FALSE
    /\ ev = [t \in Tasks |-> NoEval]
    /\ collector = [r \in Runs |-> NoCollector]
    /\ executor = 0
    /\ futures = 0
    /\ shut = [r \in Runs |-> FALSE]
    /\ ip_to_domains = <<>>
    /\ test_results = <<>>
    /\ total_ip_tests = 0
    /\ completed_ip_tests = 0
    /\ ui_queue = <<>>
    /\ start_test_btn = TRUE
    /\ pause_test_btn = FALSE
    /\ status_label = "idle"
    /\ written = <<>>
    /\ hosts_file \in {[InitialHosts EXCEPT !.faults = fs] : fs \in SUBSET Faults}
    /\ sched = NoSchedule
    /\ SPEED_TEST_CONFIG = DefaultConfig
    /\ config_file = NoFile

SpecWrite == InitWrite /\ [][NextSelect]_vars

\* the steps of the last _do_write put the write, if any, after the read and
\* the backup
WriteComesLast(steps) ==
    \A k \in 1..Len(steps) :
       steps[k] = "write" => k = 3 /\ steps[1] = "read" /\ steps[2] = "backup"

\* C37: _do_write changes the hosts file only after it has read it and
\* created a backup of the content the file had before the operation; when
\* the read or the backup fails no write is attempted and the file is left
\* as it was.
C37_BackupBeforeWrite ==
    [][/\ hosts_file'.file # hosts_file.file
            => /\ hosts_file'.backup = <<hosts_file.file>>
               /\ SubSeq(hosts_file'.steps, 1, 3) = <<"read", "backup", "write">>
       /\ WriteComesLast(hosts_file'.steps)
       /\ hosts_file'.steps \in {<<"read_failed">>, <<"read", "backup_failed">>}
            => hosts_file'.file = hosts_file.file]_vars

\* the block was written on a system where the read and the backup can fail,
\* and the backup holds the file as it was before
C37_Witness ==
    /\ {"read", "backup"} \subseteq hosts_file.faults
    /\ hosts_file.steps = <<"read", "backup", "write">>
    /\ hosts_file.file = FinalText(OriginalHosts, written)
    /\ written # <<>>
    /\ hosts_file.backup = <<OriginalHosts>>

\* C38: write_hosts_atomic is all-or-nothing: when it returns the hosts file
\* holds exactly the new text, and when it raises because every scheme failed
\* the hosts file still holds the content it had before, never an empty or
\* cut-off file.
C38_AllOrNothing ==
    [][/\ hosts_file'.steps = <<"read", "backup", "write">>
            => hosts_file'.file = FinalText(hosts_file.file, written')
       /\ hosts_file'.steps = <<"read", "backup", "write", "raised">>
            => hosts_file'.file = hosts_file.file]_vars

=============================================================================
